---- MODULE Spec2Model ----
(***************************************************************************)
(* UAVLogViewer backend: the MAVLink log parser (parse_file, the field     *)
(* extractors, _analyze_flight_data, generate_summary) and the pattern     *)
(* extractor of the flight analyzer (detect_patterns_and_changes).         *)
(*                                                                         *)
(* Conventions                                                             *)
(*  - A decoded message is a record; hasattr(msg, f) is f \in DOMAIN msg   *)
(*    and msg.get_type() is msg.mtype.                                     *)
(*  - A Python dict is a record; a key that is missing and a key that      *)
(*    holds None are both modelled as a missing field (every reader in     *)
(*    the source that meets such a key uses .get or tests "is not None").  *)
(*  - A Python value that is None or an object is None (<<>>) or           *)
(*    Some(v) (<<v>>).                                                     *)
(*  - Python floats are modelled at reduced precision: MantissaBits bits   *)
(*    of significand, least exponent 0, round to nearest, ties to even     *)
(*    (IEEE 754 with a narrower significand).  Every float operation of    *)
(*    the source goes through FlRound.                                     *)
(***************************************************************************)
EXTENDS Integers, Sequences, FiniteSets, TLC

VARIABLES
    pc,               \* position in parse_file ("open", "loop", "returned",
                      \* "raised"); per request in the endpoint specifications
    mlog,             \* messages recv_match has delivered so far, in order
    parsed_data,      \* the dict parse_file builds and returns
    message_counts,   \* locals of parse_file ...
    altitude_data,
    battery_data,
    gps_data,
    rc_data,
    attitude_data,
    modes,
    heartbeat_data,
    system_status,
    start_timestamp,
    end_timestamp,
    summary,          \* what generate_summary returned, None before it ran
    agg,              \* state of the part a specification isolates: runs of
                      \* _analyze_flight_data, the given stream, the
                      \* endpoints' requests, files and store
    patterns          \* what detect_patterns_and_changes returned

vars == <<pc, mlog, parsed_data, message_counts, altitude_data, battery_data,
          gps_data, rc_data, attitude_data, modes, heartbeat_data,
          system_status, start_timestamp, end_timestamp, summary, agg,
          patterns>>

buffers == <<altitude_data, battery_data, gps_data, rc_data, attitude_data,
             system_status>>

(***************************************************************************)
(* Bounds of the model.                                                    *)
(***************************************************************************)
MaxMsgs == 2          \* messages in one stream
MaxRecs == 3          \* records over all buffers handed to the aggregator
MaxRuns == 2          \* runs of the aggregator on the same buffers
MantissaBits == 5     \* significand width of the modelled floats
Overshoot == 3        \* how far a series may exceed a payload cap
MaxRequests == 2      \* HTTP requests in flight at the same time

(***************************************************************************)
(* Python values.                                                          *)
(***************************************************************************)
None == <<>>
Some(v) == <<v>>
hasattr(msg, f) == f \in DOMAIN msg
HasAll(msg, fs) == fs \subseteq DOMAIN msg

\* dict.get(key, default)
Get(d, key, default) == IF key \in DOMAIN d THEN d[key] ELSE default

\* {key: value} when the value is present, {} when it is None
Opt(key, present, value) == IF present THEN key :> value ELSE <<>>

\* the one-field record {key: msg.attr} when msg has attr, else no field
OptAttr(key, msg, attr) == IF attr \in DOMAIN msg THEN key :> msg[attr] ELSE <<>>

Range(s) == {s[i] : i \in DOMAIN s}

SetMax(S) == CHOOSE x \in S : \A y \in S : y <= x
SetMin(S) == CHOOSE x \in S : \A y \in S : x <= y
Abs(x) == IF x < 0 THEN -x ELSE x

(***************************************************************************)
(* Floating point.                                                         *)
(***************************************************************************)
RECURSIVE Pow2(_)
Pow2(n) == IF n = 0 THEN 1 ELSE 2 * Pow2(n - 1)

RECURSIVE Ulp(_)
\* spacing of the floats around a value whose integer part is q >= 0
Ulp(q) == IF q < Pow2(MantissaBits) THEN 1 ELSE 2 * Ulp(q \div 2)

\* n/d (n >= 0, d > 0) rounded to the nearest integer, ties to even
RoundHalfEven(n, d) ==
    LET k == n \div d
        r == n % d
    IN  IF 2 * r < d THEN k
        ELSE IF 2 * r > d THEN k + 1
        ELSE IF k % 2 = 0 THEN k ELSE k + 1

\* the float nearest to the rational num/den (den > 0)
FlRound(num, den) ==
    LET a == Abs(num)
        u == Ulp(a \div den)
        m == RoundHalfEven(a, den * u) * u
    IN  IF num < 0 THEN -m ELSE m

FlAdd(a, b) == FlRound(a + b, 1)
FlSub(a, b) == FlRound(a - b, 1)
FlMul(a, b) == FlRound(a * b, 1)
FlDiv(a, b) == IF b < 0 THEN FlRound(-a, -b) ELSE FlRound(a, b)

RECURSIVE FlSum(_, _)
\* left-to-right accumulation, as np.add.reduce does on a short array
FlSum(acc, s) == IF s = <<>> THEN acc ELSE FlSum(FlAdd(acc, Head(s)), Tail(s))

\* np.mean of a non-empty list
np_mean(s) == FlDiv(FlSum(0, s), Len(s))

\* np.var of a non-empty list: mean(abs(x - mean(x)) ** 2)
np_var(s) ==
    LET mu == np_mean(s)
        sq == [i \in DOMAIN s |-> FlMul(FlSub(s[i], mu), FlSub(s[i], mu))]
    IN  np_mean(sq)

\* np.trapz of a list with unit spacing: sum((y[i] + y[i+1]) / 2)
np_trapz(s) ==
    FlSum(0, [i \in 1..(Len(s) - 1) |-> FlDiv(FlAdd(s[i], s[i + 1]), 2)])

\* np.sqrt of a non-negative integer
np_sqrt(n) ==
    LET r == CHOOSE k \in 0..n : k * k <= n /\ (k + 1) * (k + 1) > n
    IN  FlRound(IF n <= r * r + r THEN r ELSE r + 1, 1)

SeqMax(s) == SetMax(Range(s))
SeqMin(s) == SetMin(Range(s))

(***************************************************************************)
(* Static tables (mavlink_parser/types.py).                                *)
(***************************************************************************)
VehicleNames ==
    <<"Generic", "Fixed Wing", "Quadrotor", "Coaxial Helicopter", "Helicopter",
      "Antenna Tracker", "Ground Station", "Airship", "Free Balloon", "Rocket",
      "Ground Rover", "Surface Boat", "Submarine", "Hexarotor", "Octorotor",
      "Tricopter", "Flapping Wing", "Kite", "Onboard Controller",
      "VTOL Duorotor", "VTOL Quadrotor", "VTOL Tiltrotor", "VTOL Reserved 2",
      "VTOL Reserved 3", "VTOL Reserved 4", "VTOL Reserved 5", "Gimbal", "ADSB",
      "Parafoil", "Supercam", "FLARM", "Servo", "ODID", "Decarawave UWB",
      "Battery", "Parachute", "Log", "OSD", "IMU", "GPS", "Winch">>

\* code -> name, codes 0..40
MAV_VEHICLE_TYPES == [c \in 0..(Len(VehicleNames) - 1) |-> VehicleNames[c + 1]]

AutopilotNames ==
    <<"Generic", "Reserved", "SLUGS", "ArduPilot", "OpenPilot",
      "Generic Waypoints Only", "Generic Waypoints and Simple Navigation",
      "Generic Mission Full", "Invalid", "PPZ", "UDB", "FlexiPilot", "PX4",
      "SMACCMPilot", "AutoQuad", "ARMAZILA", "Aerob", "ASLUAV", "SmartAP",
      "AirRails", "RefleX">>

\* code -> name, codes 0..20
MAV_AUTOPILOT_TYPES ==
    [c \in 0..(Len(AutopilotNames) - 1) |-> AutopilotNames[c + 1]]

MULTICOPTER_MODES ==
    {"STABILIZE", "ACRO", "ALT_HOLD", "LOITER", "AUTO", "LAND", "RTL",
     "DRIFT", "SPORT", "FLIP", "AUTOTUNE", "POSHOLD", "BRAKE", "THROW",
     "AVOID_ADSB", "GUIDED_NOGPS", "SMART_RTL", "FLOWHOLD", "FOLLOW",
     "ZIGZAG", "SYSTEMID", "AUTOROTATE", "AUTO_RTL"}

FIXED_WING_MODES ==
    {"MANUAL", "CIRCLE", "STABILIZE", "TRAINING", "ACRO", "FLY_BY_WIRE_A",
     "FLY_BY_WIRE_B", "CRUISE", "AUTOTUNE", "AUTO", "RTL", "LOITER",
     "TAKEOFF", "AVOID_ADSB", "GUIDED", "INITIALISING", "QSTABILIZE",
     "QHOVER", "QLOITER", "QLAND", "QRTL", "QAUTOTUNE", "QACRO", "THERMAL"}

ROVER_MODES ==
    {"MANUAL", "ACRO", "LEARNING", "STEERING", "HOLD", "LOITER",
     "FOLLOW", "SIMPLE", "AUTO", "RTL", "SMART_RTL", "GUIDED", "INITIALISING"}

HELICOPTER_MODES ==
    {"STABILIZE", "ACRO", "ALT_HOLD", "AUTO", "GUIDED", "LOITER",
     "RTL", "CIRCLE", "LAND", "DRIFT", "SPORT", "FLIP", "AUTOTUNE",
     "POSHOLD", "BRAKE", "THROW", "AVOID_ADSB", "GUIDED_NOGPS",
     "SMART_RTL", "FLOWHOLD", "FOLLOW", "ZIGZAG", "SYSTEMID",
     "AUTOROTATE", "AUTO_RTL"}

\* MessageSeverity
EMERGENCY == 0
ALERT == 1
CRITICAL == 2
ERROR == 3
WARNING == 4
NOTICE == 5
INFO == 6
DEBUG == 7

\* the dict in insertion order, which is the order a for loop visits it
SEVERITY_KEYWORDS ==
    <<[severity |-> CRITICAL,
       keywords |-> <<"emergency", "critical", "fatal", "crash", "failsafe">>],
      [severity |-> ERROR,
       keywords |-> <<"error", "fail", "failed", "timeout">>],
      [severity |-> WARNING,
       keywords |-> <<"warning", "warn", "caution">>],
      [severity |-> NOTICE,
       keywords |-> <<"notice", "armed", "disarmed", "mode">>]>>

INT16_MAX == 32767

(***************************************************************************)
(* Strings.                                                                *)
(***************************************************************************)
UpperToLower ==
    [A |-> "a", B |-> "b", C |-> "c", D |-> "d", E |-> "e", F |-> "f",
     G |-> "g", H |-> "h", I |-> "i", J |-> "j", K |-> "k", L |-> "l",
     M |-> "m", N |-> "n", O |-> "o", P |-> "p", Q |-> "q", R |-> "r",
     S |-> "s", T |-> "t", U |-> "u", V |-> "v", W |-> "w", X |-> "x",
     Y |-> "y", Z |-> "z"]

RECURSIVE lower(_)
\* str.lower()
lower(s) ==
    IF Len(s) = 0 THEN ""
    ELSE LET c == SubSeq(s, 1, 1)
         IN  (IF c \in DOMAIN UpperToLower THEN UpperToLower[c] ELSE c)
                 \o lower(SubSeq(s, 2, Len(s)))

\* word in text
Contains(text, word) ==
    \E i \in 1..(Len(text) - Len(word) + 1) :
        SubSeq(text, i, i + Len(word) - 1) = word

\* any(word in text for word in keywords)
AnyKeyword(text, keywords) ==
    \E k \in DOMAIN keywords : Contains(text, keywords[k])

RECURSIVE LastBucket(_, _)
\* FirstBucket going on past a matching bucket: the last match wins
LastBucket(message_lower, i) ==
    IF i > Len(SEVERITY_KEYWORDS) THEN INFO
    ELSE LET later == LastBucket(message_lower, i + 1)
         IN  IF later # INFO THEN later
             ELSE IF AnyKeyword(message_lower, SEVERITY_KEYWORDS[i].keywords)
                  THEN SEVERITY_KEYWORDS[i].severity
                  ELSE INFO

RECURSIVE FirstBucket(_, _)
\* the for loop of _determine_message_severity over buckets i, i+1, ...
FirstBucket(message_lower, i) ==
    IF i > Len(SEVERITY_KEYWORDS) THEN INFO
    ELSE IF AnyKeyword(message_lower, SEVERITY_KEYWORDS[i].keywords)
         THEN SEVERITY_KEYWORDS[i].severity
         ELSE FirstBucket(message_lower, i + 1)

_determine_message_severity(message_text) ==
    FirstBucket(lower(message_text), 1)

\* _determine_vehicle_type_from_mode testing the helicopter list first
VehicleTypeHelicopterFirst(mode) ==
    IF mode \in HELICOPTER_MODES THEN "Helicopter"
    ELSE IF mode \in MULTICOPTER_MODES THEN "Quadrotor"
    ELSE IF mode \in FIXED_WING_MODES THEN "Fixed Wing"
    ELSE IF mode \in ROVER_MODES THEN "Ground Rover"
    ELSE "Unknown"

\* _determine_vehicle_type_from_mode testing the rover list before the
\* fixed-wing list
VehicleTypeRoverFirst(mode) ==
    IF mode \in MULTICOPTER_MODES THEN "Quadrotor"
    ELSE IF mode \in ROVER_MODES THEN "Ground Rover"
    ELSE IF mode \in FIXED_WING_MODES THEN "Fixed Wing"
    ELSE IF mode \in HELICOPTER_MODES THEN "Helicopter"
    ELSE "Unknown"

_determine_vehicle_type_from_mode(mode) ==
    IF mode \in MULTICOPTER_MODES THEN "Quadrotor"
    ELSE IF mode \in FIXED_WING_MODES THEN "Fixed Wing"
    ELSE IF mode \in ROVER_MODES THEN "Ground Rover"
    ELSE IF mode \in HELICOPTER_MODES THEN "Helicopter"
    ELSE "Unknown"

(***************************************************************************)
(* Field extractors (mavlink_parser/parser.py).  Each returns None or      *)
(* Some(record).  An attribute read without a hasattr guard raises when    *)
(* the attribute is missing; the extractor's own try/except turns that     *)
(* into None.                                                              *)
(***************************************************************************)
_extract_gps_data(msg, timestamp, msg_type) ==
    LET gps_info == [timestamp |-> timestamp, message_type |-> msg_type]
    IN  IF msg_type \in {"GPS", "GPS2"} THEN
            IF HasAll(msg, {"Alt", "Lat", "Lng"}) THEN
                Some(gps_info
                     @@ [latitude |-> msg.Lat, longitude |-> msg.Lng,
                         absolute_alt |-> msg.Alt,
                         relative_alt |->
                             IF hasattr(msg, "RelAlt") THEN msg.RelAlt ELSE msg.Alt,
                         altitude |-> msg.Alt,
                         lat |-> msg.Lat, lon |-> msg.Lng,
                         fix_type |->
                             IF hasattr(msg, "Status") THEN msg.Status ELSE 3,
                         satellites |->
                             IF hasattr(msg, "NSats") THEN msg.NSats ELSE 0]
                     @@ OptAttr("hdop", msg, "HDop")
                     @@ OptAttr("vdop", msg, "VDop")
                     @@ OptAttr("ground_speed", msg, "Spd")
                     @@ OptAttr("ground_course", msg, "GCrs"))
            ELSE None
        ELSE IF msg_type = "GPA" THEN
            IF hasattr(msg, "VDop") \/ hasattr(msg, "HDop") THEN
                Some(gps_info
                     @@ OptAttr("hdop", msg, "HDop")
                     @@ OptAttr("vdop", msg, "VDop")
                     @@ OptAttr("satellites", msg, "SAcc")
                     @@ [message_subtype |-> "accuracy"])
            ELSE None
        ELSE IF msg_type = "GPS_RAW_INT" THEN
            IF HasAll(msg, {"lat", "lon", "alt", "fix_type",
                            "satellites_visible", "eph", "epv", "vel", "cog"})
            THEN
                Some(gps_info
                     @@ [latitude |-> FlDiv(msg.lat, 10000000),
                         longitude |-> FlDiv(msg.lon, 10000000),
                         absolute_alt |-> FlDiv(msg.alt, 1000),
                         altitude |-> FlDiv(msg.alt, 1000),
                         fix_type |-> msg.fix_type,
                         satellites |-> msg.satellites_visible]
                     @@ Opt("hdop", msg.eph # 65535, FlDiv(msg.eph, 100))
                     @@ Opt("vdop", msg.epv # 65535, FlDiv(msg.epv, 100))
                     @@ Opt("ground_speed", msg.vel # 65535, FlDiv(msg.vel, 100))
                     @@ Opt("ground_course", msg.cog # 65535, FlDiv(msg.cog, 100)))
            ELSE None
        ELSE IF msg_type = "GLOBAL_POSITION_INT" THEN
            IF HasAll(msg, {"lat", "lon", "alt", "relative_alt", "vx", "vy",
                            "vz", "hdg"})
            THEN
                Some(gps_info
                     @@ [latitude |-> FlDiv(msg.lat, 10000000),
                         longitude |-> FlDiv(msg.lon, 10000000),
                         absolute_alt |-> FlDiv(msg.alt, 1000),
                         relative_alt |-> FlDiv(msg.relative_alt, 1000),
                         altitude |-> FlDiv(msg.alt, 1000),
                         ground_speed |->
                             FlDiv(np_sqrt(msg.vx * msg.vx + msg.vy * msg.vy), 100),
                         vertical_speed |-> FlDiv(msg.vz, 100)]
                     @@ Opt("heading", msg.hdg # 65535, FlDiv(msg.hdg, 100)))
            ELSE None
        ELSE None

_extract_position_data(msg, timestamp, msg_type) ==
    IF msg_type = "POS" /\ hasattr(msg, "Alt") THEN
        Some([timestamp |-> timestamp, absolute_alt |-> msg.Alt,
              relative_alt |->
                  IF hasattr(msg, "RelAlt") THEN msg.RelAlt ELSE msg.Alt,
              altitude |-> msg.Alt, altitude_source |-> "POS"]
             @@ OptAttr("latitude", msg, "Lat")
             @@ OptAttr("longitude", msg, "Lng"))
    ELSE IF msg_type = "LOCAL_POSITION_NED" THEN
        IF HasAll(msg, {"x", "y", "z", "vx", "vy", "vz"}) THEN
            Some([timestamp |-> timestamp, absolute_alt |-> -msg.z,
                  relative_alt |-> -msg.z, altitude |-> -msg.z,
                  altitude_source |-> "LOCAL_POSITION_NED",
                  x |-> msg.x, y |-> msg.y, z |-> msg.z,
                  vx |-> msg.vx, vy |-> msg.vy, vz |-> msg.vz])
        ELSE None
    ELSE None

\* sum(voltages[:n]) of integer cell voltages
RECURSIVE SumFirst(_, _)
SumFirst(s, n) ==
    IF n <= 0 \/ s = <<>> THEN 0 ELSE Head(s) + SumFirst(Tail(s), n - 1)

_extract_battery_data(msg, timestamp, msg_type) ==
    IF msg_type = "BAT" /\ hasattr(msg, "Volt") THEN
        Some([timestamp |-> timestamp, voltage |-> msg.Volt,
              message_type |-> msg_type]
             @@ OptAttr("current", msg, "Curr")
             @@ OptAttr("remaining", msg, "CurrTot")
             @@ OptAttr("temperature", msg, "Temp"))
    ELSE IF msg_type = "CURR" /\ hasattr(msg, "Volt") THEN
        Some([timestamp |-> timestamp, voltage |-> msg.Volt,
              message_type |-> msg_type]
             @@ OptAttr("current", msg, "Curr")
             @@ OptAttr("current_total", msg, "CurrTot"))
    ELSE IF msg_type = "POWR" /\ hasattr(msg, "Vcc") THEN
        Some([timestamp |-> timestamp, voltage |-> FlDiv(msg.Vcc, 1000),
              message_type |-> msg_type]
             @@ Opt("voltage_servo", hasattr(msg, "VServo"),
                    FlDiv(Get(msg, "VServo", 0), 1000))
             @@ OptAttr("flags", msg, "Flags"))
    ELSE IF msg_type = "BATTERY_STATUS" THEN
        IF HasAll(msg, {"voltages", "voltages_ext", "current_battery",
                        "battery_remaining", "temperature",
                        "battery_function", "type"})
        THEN
            Some([timestamp |-> timestamp,
                  battery_function |-> msg.battery_function,
                  battery_type |-> msg.type, message_type |-> msg_type]
                 @@ Opt("voltage", msg.voltages # <<>>,
                        FlDiv(SumFirst(msg.voltages, msg.voltages_ext), 1000))
                 @@ Opt("current", msg.current_battery # -1,
                        FlDiv(msg.current_battery, 100))
                 @@ Opt("remaining", msg.battery_remaining # -1,
                        msg.battery_remaining)
                 @@ Opt("temperature", msg.temperature # INT16_MAX,
                        FlDiv(msg.temperature, 100)))
        ELSE None
    ELSE None

_extract_rc_data(msg, timestamp, msg_type) ==
    LET rc_info == [timestamp |-> timestamp, message_type |-> msg_type]
    IN  IF msg_type = "RCIN" /\ hasattr(msg, "C1") THEN
            Some(rc_info
                 @@ [chan1 |-> msg.C1, chan2 |-> Get(msg, "C2", 0),
                     chan3 |-> Get(msg, "C3", 0), chan4 |-> Get(msg, "C4", 0),
                     chan5 |-> Get(msg, "C5", 0), chan6 |-> Get(msg, "C6", 0),
                     chan7 |-> Get(msg, "C7", 0), chan8 |-> Get(msg, "C8", 0),
                     rssi |-> 255])
        ELSE IF msg_type = "RCOU" /\ hasattr(msg, "C1") THEN
            Some(rc_info
                 @@ [chan1_out |-> msg.C1, chan2_out |-> Get(msg, "C2", 0),
                     chan3_out |-> Get(msg, "C3", 0),
                     chan4_out |-> Get(msg, "C4", 0),
                     chan5_out |-> Get(msg, "C5", 0),
                     chan6_out |-> Get(msg, "C6", 0),
                     chan7_out |-> Get(msg, "C7", 0),
                     chan8_out |-> Get(msg, "C8", 0),
                     output_type |-> "servo"])
        ELSE IF msg_type \in {"RC_CHANNELS", "RC_CHANNELS_RAW"} THEN
            IF HasAll(msg, {"chan1_raw", "chan2_raw", "chan3_raw", "chan4_raw"})
            THEN
                Some(rc_info
                     @@ [chan1 |-> msg.chan1_raw, chan2 |-> msg.chan2_raw,
                         chan3 |-> msg.chan3_raw, chan4 |-> msg.chan4_raw,
                         chan5 |-> Get(msg, "chan5_raw", 0),
                         chan6 |-> Get(msg, "chan6_raw", 0),
                         chan7 |-> Get(msg, "chan7_raw", 0),
                         chan8 |-> Get(msg, "chan8_raw", 0),
                         rssi |-> Get(msg, "rssi", 255)])
            ELSE None
        ELSE None

_extract_attitude_data(msg, timestamp, msg_type) ==
    IF msg_type = "ATT" /\ hasattr(msg, "Roll") THEN
        IF HasAll(msg, {"Pitch", "Yaw"}) THEN
            Some([timestamp |-> timestamp, roll |-> msg.Roll,
                  pitch |-> msg.Pitch, yaw |-> msg.Yaw,
                  message_type |-> msg_type])
        ELSE None
    ELSE IF msg_type \in {"AHR2", "AHR3"} /\ hasattr(msg, "Roll") THEN
        IF HasAll(msg, {"Pitch", "Yaw"}) THEN
            Some([timestamp |-> timestamp, roll |-> msg.Roll,
                  pitch |-> msg.Pitch, yaw |-> msg.Yaw,
                  message_type |-> msg_type]
                 @@ OptAttr("altitude", msg, "Alt")
                 @@ OptAttr("latitude", msg, "Lat")
                 @@ OptAttr("longitude", msg, "Lng"))
        ELSE None
    ELSE IF msg_type = "ATTITUDE" THEN
        IF HasAll(msg, {"roll", "pitch", "yaw", "rollspeed", "pitchspeed",
                        "yawspeed"})
        THEN
            Some([timestamp |-> timestamp, roll |-> msg.roll,
                  pitch |-> msg.pitch, yaw |-> msg.yaw,
                  rollspeed |-> msg.rollspeed, pitchspeed |-> msg.pitchspeed,
                  yawspeed |-> msg.yawspeed, message_type |-> msg_type])
        ELSE None
    ELSE None

_extract_message_data(msg, timestamp, msg_type) ==
    IF msg_type = "MSG" /\ hasattr(msg, "Message") THEN
        Some([timestamp |-> timestamp,
              severity |-> _determine_message_severity(msg.Message),
              text |-> msg.Message, message_type |-> msg_type])
    ELSE IF msg_type = "ERR" /\ hasattr(msg, "Subsys") THEN
        IF hasattr(msg, "ECode") THEN
            Some([timestamp |-> timestamp, severity |-> ERROR,
                  text |-> "Subsystem " \o ToString(msg.Subsys)
                               \o ": Error " \o ToString(msg.ECode),
                  subsystem |-> msg.Subsys, error_code |-> msg.ECode,
                  message_type |-> msg_type])
        ELSE None
    ELSE IF msg_type = "STATUSTEXT" THEN
        IF HasAll(msg, {"severity", "text"}) THEN
            Some([timestamp |-> timestamp, severity |-> msg.severity,
                  text |-> msg.text, message_type |-> msg_type])
        ELSE None
    ELSE None

_extract_ekf_data(msg, timestamp, msg_type) ==
    LET ekf_info == [timestamp |-> timestamp, message_type |-> msg_type]
    IN  IF msg_type \in {"XKFS", "NKF1"} THEN
            Some(ekf_info
                 @@ OptAttr("roll_innovation", msg, "RI")
                 @@ OptAttr("pitch_innovation", msg, "PI")
                 @@ OptAttr("yaw_innovation", msg, "YI")
                 @@ OptAttr("velocity_variance", msg, "VV")
                 @@ OptAttr("position_variance", msg, "PV")
                 @@ OptAttr("height_variance", msg, "HV")
                 @@ OptAttr("mag_variance", msg, "MV")
                 @@ OptAttr("tas_ratio", msg, "TR"))
        ELSE IF msg_type \in {"XKV1", "XKV2"} THEN
            Some(ekf_info
                 @@ OptAttr("velocity_north", msg, "VN")
                 @@ OptAttr("velocity_east", msg, "VE")
                 @@ OptAttr("velocity_down", msg, "VD"))
        ELSE IF msg_type = "XKQ" THEN
            Some(ekf_info
                 @@ OptAttr("q1", msg, "Q1") @@ OptAttr("q2", msg, "Q2")
                 @@ OptAttr("q3", msg, "Q3") @@ OptAttr("q4", msg, "Q4"))
        ELSE None

_extract_imu_data(msg, timestamp, msg_type) ==
    LET imu_info == [timestamp |-> timestamp, message_type |-> msg_type]
    IN  IF msg_type \in {"IMU", "IMU2", "IMU3"} THEN
            Some(imu_info
                 @@ OptAttr("gyro_x", msg, "GyrX")
                 @@ OptAttr("gyro_y", msg, "GyrY")
                 @@ OptAttr("gyro_z", msg, "GyrZ")
                 @@ OptAttr("accel_x", msg, "AccX")
                 @@ OptAttr("accel_y", msg, "AccY")
                 @@ OptAttr("accel_z", msg, "AccZ")
                 @@ OptAttr("temperature", msg, "T"))
        ELSE IF msg_type \in {"ACC", "ACC2", "ACC3"} THEN
            Some(imu_info
                 @@ OptAttr("accel_x", msg, "AccX")
                 @@ OptAttr("accel_y", msg, "AccY")
                 @@ OptAttr("accel_z", msg, "AccZ")
                 @@ [sensor_type |-> "accelerometer"])
        ELSE IF msg_type \in {"GYR", "GYR2", "GYR3"} THEN
            Some(imu_info
                 @@ OptAttr("gyro_x", msg, "GyrX")
                 @@ OptAttr("gyro_y", msg, "GyrY")
                 @@ OptAttr("gyro_z", msg, "GyrZ")
                 @@ [sensor_type |-> "gyroscope"])
        ELSE None

_extract_baro_data(msg, timestamp, msg_type) ==
    Some([timestamp |-> timestamp, message_type |-> msg_type]
         @@ OptAttr("pressure", msg, "Press")
         @@ OptAttr("altitude", msg, "Alt")
         @@ OptAttr("temperature", msg, "Temp")
         @@ OptAttr("climb_rate", msg, "CRt"))

_extract_mag_data(msg, timestamp, msg_type) ==
    Some([timestamp |-> timestamp, message_type |-> msg_type]
         @@ OptAttr("mag_x", msg, "MagX")
         @@ OptAttr("mag_y", msg, "MagY")
         @@ OptAttr("mag_z", msg, "MagZ")
         @@ OptAttr("mag_field", msg, "MagField")
         @@ OptAttr("offsets_x", msg, "OfsX")
         @@ OptAttr("offsets_y", msg, "OfsY")
         @@ OptAttr("offsets_z", msg, "OfsZ"))

_extract_performance_data(msg, timestamp, msg_type) ==
    Some([timestamp |-> timestamp, message_type |-> msg_type]
         @@ OptAttr("loop_time", msg, "LTime")
         @@ OptAttr("main_loop_count", msg, "MLC")
         @@ OptAttr("g_dt_max", msg, "gDt")
         @@ OptAttr("g_dt_min", msg, "gDtMin")
         @@ OptAttr("log_dropped", msg, "LogDrop"))

_extract_vibration_data(msg, timestamp, msg_type) ==
    IF msg_type = "VIBE" THEN
        Some([timestamp |-> timestamp, message_type |-> msg_type]
             @@ OptAttr("vibe_x", msg, "VibeX")
             @@ OptAttr("vibe_y", msg, "VibeY")
             @@ OptAttr("vibe_z", msg, "VibeZ")
             @@ OptAttr("clipping_0", msg, "Clip0")
             @@ OptAttr("clipping_1", msg, "Clip1")
             @@ OptAttr("clipping_2", msg, "Clip2"))
    ELSE IF msg_type = "VIBRATION" THEN
        IF HasAll(msg, {"vibration_x", "vibration_y", "vibration_z",
                        "clipping_0", "clipping_1", "clipping_2"})
        THEN
            Some([timestamp |-> timestamp, vibration_x |-> msg.vibration_x,
                  vibration_y |-> msg.vibration_y,
                  vibration_z |-> msg.vibration_z,
                  clipping_0 |-> msg.clipping_0, clipping_1 |-> msg.clipping_1,
                  clipping_2 |-> msg.clipping_2, message_type |-> msg_type])
        ELSE None
    ELSE None

(***************************************************************************)
(* _analyze_flight_data: the statistics of the completed buffers.  Each    *)
(* part is the dict entries one "if" block of the source adds.             *)
(***************************************************************************)
\* [d.get(key) for d in data if d.get(key) is not None]
Values(data, key) ==
    LET present == SelectSeq(data, LAMBDA d : key \in DOMAIN d)
    IN  [i \in DOMAIN present |-> present[i][key]]

AltitudeStats(data) ==
    LET altitudes == Values(data, "relative_alt")
    IN  IF data # <<>> /\ altitudes # <<>>
        THEN [max_altitude |-> SeqMax(altitudes),
              min_altitude |-> SeqMin(altitudes),
              avg_altitude |-> np_mean(altitudes),
              altitude_variance |-> np_var(altitudes)]
        ELSE <<>>

BatteryStats(data) ==
    LET voltages == Values(data, "voltage")
        currents == Values(data, "current")
        temperatures == Values(data, "temperature")
    IN  (IF voltages # <<>>
         THEN [max_battery_voltage |-> SeqMax(voltages),
               min_battery_voltage |-> SeqMin(voltages),
               avg_battery_voltage |-> np_mean(voltages),
               battery_voltage_drop |->
                   FlSub(SeqMax(voltages), SeqMin(voltages))]
         ELSE <<>>)
        @@
        (IF currents # <<>>
         THEN [max_current |-> SeqMax(currents),
               avg_current |-> np_mean(currents),
               total_current_consumed |->
                   IF Len(currents) > 1 THEN np_trapz(currents) ELSE 0]
         ELSE <<>>)
        @@
        (IF temperatures # <<>>
         THEN [max_battery_temp |-> SeqMax(temperatures),
               min_battery_temp |-> SeqMin(temperatures)]
         ELSE <<>>)

\* min(d.get('timestamp', 0) for d in losses)
FirstTimestamp(losses) ==
    SetMin({Get(losses[i], "timestamp", 0) : i \in DOMAIN losses})

\* GpsStats without the "if gps_data:" guard
GpsStatsUnguarded(data) ==
    LET gps_losses == SelectSeq(data, LAMBDA d : Get(d, "fix_type", 0) < 3)
        satellites == Values(data, "satellites")
        hdops == Values(data, "hdop")
    IN  [gps_loss_events |-> Len(gps_losses)]
        @@ Opt("first_gps_loss", gps_losses # <<>>, FirstTimestamp(gps_losses))
        @@ (IF satellites # <<>>
            THEN [avg_satellites |-> np_mean(satellites),
                  min_satellites |-> SeqMin(satellites)]
            ELSE <<>>)
        @@ (IF hdops # <<>>
            THEN [avg_hdop |-> np_mean(hdops), max_hdop |-> SeqMax(hdops)]
            ELSE <<>>)

GpsStats(data) ==
    LET gps_losses == SelectSeq(data, LAMBDA d : Get(d, "fix_type", 0) < 3)
        satellites == Values(data, "satellites")
        hdops == Values(data, "hdop")
    IN  IF data = <<>> THEN <<>>
        ELSE [gps_loss_events |-> Len(gps_losses)]
             @@ Opt("first_gps_loss", gps_losses # <<>>,
                    FirstTimestamp(gps_losses))
             @@ (IF satellites # <<>>
                 THEN [avg_satellites |-> np_mean(satellites),
                       min_satellites |-> SeqMin(satellites)]
                 ELSE <<>>)
             @@ (IF hdops # <<>>
                 THEN [avg_hdop |-> np_mean(hdops), max_hdop |-> SeqMax(hdops)]
                 ELSE <<>>)

\* RcStats reading a record without rssi as rssi 0
RcStatsDefaultZero(data) ==
    LET rc_losses == SelectSeq(data, LAMBDA d : Get(d, "rssi", 0) < 50)
    IN  IF data = <<>> THEN <<>>
        ELSE [rc_loss_events |-> Len(rc_losses)]
             @@ Opt("first_rc_loss", rc_losses # <<>>,
                    FirstTimestamp(rc_losses))

RcStats(data) ==
    LET rc_losses == SelectSeq(data, LAMBDA d : Get(d, "rssi", 255) < 50)
    IN  IF data = <<>> THEN <<>>
        ELSE [rc_loss_events |-> Len(rc_losses)]
             @@ Opt("first_rc_loss", rc_losses # <<>>,
                    FirstTimestamp(rc_losses))

AttitudeStats(data) ==
    IF data = <<>> THEN <<>>
    ELSE [max_roll |-> SetMax({Abs(Get(data[i], "roll", 0)) : i \in DOMAIN data}),
          max_pitch |->
              SetMax({Abs(Get(data[i], "pitch", 0)) : i \in DOMAIN data})]

SystemStats(data) ==
    LET loads == [i \in DOMAIN data |-> Get(data[i], "load", 0)]
    IN  IF data = <<>> THEN <<>>
        ELSE [max_cpu_load |-> FlDiv(SeqMax(loads), 10),
              avg_cpu_load |-> FlDiv(np_mean(loads), 10)]

_analyze_flight_data(altitude, battery, gps, rc, attitude, system) ==
    AltitudeStats(altitude) @@ BatteryStats(battery) @@ GpsStats(gps)
        @@ RcStats(rc) @@ AttitudeStats(attitude) @@ SystemStats(system)

(***************************************************************************)
(* generate_summary.                                                       *)
(***************************************************************************)
\* f"{x:.1f}" and f"{x:.0f}" of a float that is a whole number
Fmt1(x) == ToString(x) \o ".0"
Fmt0(x) == ToString(x)

\* datetime.fromtimestamp(ts), and its strftime('%Y-%m-%d %H:%M:%S') written
\* as the epoch second it denotes
datetime_fromtimestamp(ts) == Some(ts)
strftime(dt) == "@" \o ToString(dt[1])

\* bool(x) of a number
Truthy(x) == x # 0

RECURSIVE Join(_, _)
\* sep.join(parts)
Join(sep, parts) ==
    IF parts = <<>> THEN ""
    ELSE IF Len(parts) = 1 THEN parts[1]
    ELSE parts[1] \o sep \o Join(sep, Tail(parts))

SummaryParts(flight_data) ==
    LET stats == Get(flight_data, "flight_stats", <<>>)
        start_time == Get(flight_data, "start_time", None)
        duration == Get(flight_data, "flight_duration", 0)
        vehicle_type == Get(flight_data, "vehicle_type", "Unknown")
        autopilot_type == Get(flight_data, "autopilot_type", "Unknown")
        errors == Get(flight_data, "errors", <<>>)
        critical_errors ==
            SelectSeq(errors, LAMBDA e : Get(e, "severity", 6) <= 2)
        warnings == SelectSeq(errors, LAMBDA e : Get(e, "severity", 6) = 4)
    IN  <<"Vehicle: " \o vehicle_type>>
        \o (IF autopilot_type # "Unknown"
            THEN <<"Autopilot: " \o autopilot_type>> ELSE <<>>)
        \o (IF start_time # None
            THEN <<"Date: " \o strftime(start_time)>> ELSE <<>>)
        \o (IF duration > 0
            THEN <<"Duration: " \o ToString(duration \div 60) \o "m "
                       \o ToString(duration % 60) \o "s">>
            ELSE <<>>)
        \o (IF Truthy(Get(stats, "max_altitude", 0))
            THEN <<"Max Alt: " \o Fmt1(stats.max_altitude) \o "m">> ELSE <<>>)
        \o (IF Truthy(Get(stats, "max_battery_voltage", 0))
               /\ Truthy(Get(stats, "min_battery_voltage", 0))
            THEN <<"Battery: " \o Fmt1(stats.min_battery_voltage) \o "V-"
                       \o Fmt1(stats.max_battery_voltage) \o "V">>
            ELSE <<>>)
        \o (IF Truthy(Get(stats, "avg_satellites", 0))
            THEN <<"GPS Sats: " \o Fmt0(stats.avg_satellites) \o " avg">>
            ELSE <<>>)
        \o (IF critical_errors # <<>>
            THEN <<"Critical: " \o ToString(Len(critical_errors)) \o " errors">>
            ELSE IF warnings # <<>>
            THEN <<"Warnings: " \o ToString(Len(warnings))>>
            ELSE <<>>)
        \o (IF Get(stats, "gps_loss_events", 0) > 0
            THEN <<"GPS Issues: " \o ToString(stats.gps_loss_events)
                       \o " events">>
            ELSE <<>>)
        \o (IF Get(stats, "rc_loss_events", 0) > 0
            THEN <<"RC Issues: " \o ToString(stats.rc_loss_events) \o " events">>
            ELSE <<>>)

\* A flight model handed in from outside may hold, under a key the formatter
\* reads as a number, a value of another type (text, or a key present with
\* value None).  Such a model lists those keys under "mistyped"; the values
\* themselves are non-empty text.  parse_file never builds one.
Mistyped(flight_data) == Get(flight_data, "mistyped", {})

\* an exception is raised inside the try block: a comparison of a non-number
\* with 0 (TypeError), or a float format of a non-number (ValueError)
SummaryRaises(flight_data) ==
    LET stats == Get(flight_data, "flight_stats", <<>>)
        bad == Mistyped(flight_data)
    IN  \/ "flight_duration" \in bad
        \/ "max_altitude" \in bad
        \/ /\ {"max_battery_voltage", "min_battery_voltage"} \subseteq DOMAIN stats
           /\ {"max_battery_voltage", "min_battery_voltage"} \cap bad # {}
           /\ \A k \in {"max_battery_voltage", "min_battery_voltage"} \ bad :
                  Truthy(stats[k])
        \/ "avg_satellites" \in bad
        \/ "gps_loss_events" \in bad
        \/ "rc_loss_events" \in bad

\* the except branch returns the fixed fallback string
generate_summary(flight_data) ==
    IF SummaryRaises(flight_data)
    THEN "Error generating flight summary"
    ELSE Join(" | ", SummaryParts(flight_data))

(***************************************************************************)
(* detect_patterns_and_changes (agent/flight_analyzer.py).                 *)
(***************************************************************************)
SeriesCap == 100      \* diffs[:100], fix_types[:100], rolls[:100], ...
ErrorCap == 20        \* errors[:20]

\* s[:n]
Take(s, n) == SubSeq(s, 1, IF Len(s) < n THEN Len(s) ELSE n)

\* Diffs stopping at the payload cap
DiffsUpToCap(v) ==
    [i \in 1..(IF Len(v) - 1 < SeriesCap THEN Len(v) - 1 ELSE SeriesCap) |->
        FlSub(v[i + 1], v[i])]

\* [v[i] - v[i-1] for i in range(1, len(v))]
Diffs(v) == [i \in 1..(Len(v) - 1) |-> FlSub(v[i + 1], v[i])]

\* ChangePattern capping the values before differencing them
ChangePatternCapsValues(key, data, field) ==
    LET values == Take(Values(data, field), SeriesCap)
        diffs == Diffs(values)
    IN  IF data # <<>> /\ Len(values) > 1
        THEN key :> [max_drop |-> SeqMin(diffs), max_rise |-> SeqMax(diffs),
                     all_diffs |-> Take(diffs, SeriesCap)]
        ELSE <<>>

ChangePattern(key, data, field) ==
    LET values == Values(data, field)
        diffs == Diffs(values)
    IN  IF data # <<>> /\ Len(values) > 1
        THEN key :> [max_drop |-> SeqMin(diffs), max_rise |-> SeqMax(diffs),
                     all_diffs |-> Take(diffs, SeriesCap)]
        ELSE <<>>

GpsPattern(data) ==
    IF data # <<>>
    THEN [gps_fix_types |->
              Take([i \in DOMAIN data |-> Get(data[i], "fix_type", 3)],
                   SeriesCap)]
    ELSE <<>>

AttitudePattern(data) ==
    IF data # <<>>
    THEN [attitude_rolls |-> Take(Values(data, "roll"), SeriesCap),
          attitude_pitches |-> Take(Values(data, "pitch"), SeriesCap)]
    ELSE <<>>

ErrorPattern(errors) ==
    IF errors # <<>>
    THEN [error_messages |->
              [i \in DOMAIN Take(errors, ErrorCap) |-> errors[i].text]]
    ELSE <<>>

detect_patterns_and_changes(flight_data) ==
    ChangePattern("altitude_changes",
                  Get(flight_data, "altitude_data", <<>>), "altitude")
    @@ ChangePattern("battery_voltage_changes",
                     Get(flight_data, "battery_data", <<>>), "voltage")
    @@ GpsPattern(Get(flight_data, "gps_data", <<>>))
    @@ AttitudePattern(Get(flight_data, "attitude_data", <<>>))
    @@ ErrorPattern(Get(flight_data, "errors", <<>>))

(***************************************************************************)
(* The decoded messages a stream may deliver.  The decoder (pymavlink) is  *)
(* outside the repository; these are the message shapes the extractors     *)
(* distinguish, with the clock fields the timestamp resolution reads.      *)
(***************************************************************************)
HeartbeatMessages ==
    {[mtype |-> "HEARTBEAT", _timestamp |-> 5, type |-> 2, autopilot |-> 3,
      base_mode |-> 81, custom_mode |-> 0, system_status |-> 4,
      mavlink_version |-> 3],
     [mtype |-> "HEARTBEAT", _timestamp |-> 3, type |-> 1, autopilot |-> 12,
      base_mode |-> 81, custom_mode |-> 0, system_status |-> 4,
      mavlink_version |-> 3],
     [mtype |-> "HEARTBEAT", _timestamp |-> 4, type |-> 99, autopilot |-> 99,
      base_mode |-> 0, custom_mode |-> 0, system_status |-> 0,
      mavlink_version |-> 3],
     [mtype |-> "HEARTBEAT", _timestamp |-> 4, type |-> 10]}

ModeMessages ==
    {[mtype |-> "MODE", TimeUS |-> 2000000, Mode |-> "STABILIZE", ModeNum |-> 0],
     [mtype |-> "MODE", TimeUS |-> 1000000, Mode |-> "MANUAL"],
     [mtype |-> "MODE", TimeUS |-> 6000000, _timestamp |-> 9, Mode |-> "HOLD",
      ModeNum |-> 4],
     [mtype |-> "MODE", Mode |-> "CUSTOM", ModeNum |-> 99],
     [mtype |-> "MODE", TimeUS |-> 0]}

TextMessages ==
    {[mtype |-> "MSG", TimeUS |-> 3000000, Message |-> "EKF Critical failure"],
     [mtype |-> "MSG", TimeUS |-> 2000000, Message |-> "Battery WARNING"],
     [mtype |-> "MSG", TimeUS |-> 4000000, Message |-> "Mode change"],
     [mtype |-> "MSG", TimeUS |-> 1000000, Message |-> "Takeoff complete"],
     [mtype |-> "MSG", TimeUS |-> 1000000],
     [mtype |-> "STATUSTEXT", _timestamp |-> 7, severity |-> 4,
      text |-> "low battery"],
     [mtype |-> "STATUSTEXT", _timestamp |-> 2, severity |-> 5,
      text |-> "critical test passed"],
     [mtype |-> "ERR", TimeUS |-> 5000000, Subsys |-> 5, ECode |-> 2],
     [mtype |-> "ERR", TimeUS |-> 5000000, Subsys |-> 5]}

GpsMessages ==
    {[mtype |-> "GPS", TimeUS |-> 4000000, Status |-> 1, Lat |-> 10,
      Lng |-> 20, Alt |-> 26, RelAlt |-> 10, NSats |-> 4, HDop |-> 2],
     [mtype |-> "GPS2", TimeUS |-> 2000000, Lat |-> 10, Lng |-> 20, Alt |-> 26],
     [mtype |-> "GPS", TimeUS |-> 2000000, Status |-> 3],
     [mtype |-> "GPA", TimeUS |-> 3000000, HDop |-> 1, SAcc |-> 2],
     [mtype |-> "GPS_RAW_INT", _timestamp |-> 6, lat |-> 100000000,
      lon |-> 200000000, alt |-> 26000, fix_type |-> 2,
      satellites_visible |-> 5, eph |-> 200, epv |-> 65535, vel |-> 300,
      cog |-> 65535],
     [mtype |-> "GLOBAL_POSITION_INT", _timestamp |-> 1, lat |-> 100000000,
      lon |-> 200000000, alt |-> 26000, relative_alt |-> 10000, vx |-> 300,
      vy |-> 400, vz |-> -100, hdg |-> 65535]}

RcMessages ==
    {[mtype |-> "RCIN", TimeUS |-> 1000000, C1 |-> 15, C2 |-> 15],
     [mtype |-> "RCOU", TimeUS |-> 2000000, C1 |-> 11],
     [mtype |-> "RC_CHANNELS", _timestamp |-> 8, chan1_raw |-> 15,
      chan2_raw |-> 15, chan3_raw |-> 10, chan4_raw |-> 15, rssi |-> 40],
     [mtype |-> "RC_CHANNELS_RAW", _timestamp |-> 3, chan1_raw |-> 15,
      chan2_raw |-> 15, chan3_raw |-> 10, chan4_raw |-> 15]}

FlightMessages ==
    {[mtype |-> "CTUN", TimeUS |-> 3000000, Alt |-> 10],
     [mtype |-> "NTUN", TimeUS |-> 3000000],
     [mtype |-> "POS", TimeUS |-> 1000000, Alt |-> 26, RelAlt |-> 0],
     [mtype |-> "LOCAL_POSITION_NED", _timestamp |-> 2, x |-> 1, y |-> 1,
      z |-> -12, vx |-> 0, vy |-> 0, vz |-> 0],
     [mtype |-> "BAT", TimeUS |-> 2000000, Volt |-> 12, Curr |-> 3],
     [mtype |-> "BATTERY_STATUS", _timestamp |-> 9, voltages |-> <<>>,
      voltages_ext |-> 0, current_battery |-> -1, battery_remaining |-> 80,
      temperature |-> INT16_MAX, battery_function |-> 0, type |-> 1],
     [mtype |-> "ATT", TimeUS |-> 1000000, Roll |-> -20, Pitch |-> 5, Yaw |-> 9],
     [mtype |-> "ATTITUDE", _timestamp |-> 2, roll |-> 1, pitch |-> -2,
      yaw |-> 3, rollspeed |-> 0, pitchspeed |-> 0, yawspeed |-> 0],
     [mtype |-> "SYS_STATUS", _timestamp |-> 4,
      onboard_control_sensors_present |-> 1,
      onboard_control_sensors_enabled |-> 1,
      onboard_control_sensors_health |-> 1, load |-> 500,
      voltage_battery |-> 12000, current_battery |-> 300,
      battery_remaining |-> 80, drop_rate_comm |-> 0]}

SensorMessages ==
    {[mtype |-> "XKFS", TimeUS |-> 1000000, RI |-> 1],
     [mtype |-> "XKFM", TimeUS |-> 1000000],
     [mtype |-> "IMU", TimeUS |-> 2000000, GyrX |-> 1],
     [mtype |-> "BARO", TimeUS |-> 3000000, Alt |-> 9],
     [mtype |-> "MAG", TimeUS |-> 4000000, MagX |-> 1],
     [mtype |-> "PM", TimeUS |-> 5000000, LTime |-> 1],
     [mtype |-> "VIBE", TimeUS |-> 6000000, VibeX |-> 1],
     [mtype |-> "PARM", TimeUS |-> 0, _timestamp |-> 7]}

\* messages that lack a field their branch reads without a hasattr test
FailingMessages ==
    {[mtype |-> "SYS_STATUS", _timestamp |-> 7, load |-> 500],
     [mtype |-> "ATTITUDE", _timestamp |-> 7, roll |-> 1]}

Messages ==
    HeartbeatMessages \cup ModeMessages \cup TextMessages \cup GpsMessages
        \cup RcMessages \cup FlightMessages \cup SensorMessages
        \cup FailingMessages

(***************************************************************************)
(* parse_file.                                                             *)
(***************************************************************************)
\* Timestamp preferring the decoder's _timestamp to TimeUS
TimestampPrefersDecoder(msg) ==
    IF hasattr(msg, "_timestamp") THEN msg._timestamp
    ELSE IF hasattr(msg, "TimeUS") THEN FlDiv(msg.TimeUS, 1000000)
    ELSE 0

\* the timestamp of a message (parser.py, "Get timestamp")
Timestamp(msg) ==
    IF hasattr(msg, "TimeUS") THEN FlDiv(msg.TimeUS, 1000000)
    ELSE IF hasattr(msg, "_timestamp") THEN msg._timestamp
    ELSE 0

\* the state the elif chain of the loop body may change
extracted == <<parsed_data, altitude_data, battery_data, gps_data, rc_data,
               attitude_data, modes, heartbeat_data, system_status>>

\* d[key].append(rec), creating the list on first use
AppendKey(d, key, rec) ==
    IF key \in DOMAIN d THEN [d EXCEPT ![key] = Append(@, rec)]
    ELSE d @@ (key :> <<rec>>)

\* lst.append(rec) when the extractor returned a record
AppendSome(lst, info) == IF info # None THEN Append(lst, info[1]) ELSE lst

HeartbeatFields ==
    {"type", "autopilot", "base_mode", "custom_mode", "system_status",
     "mavlink_version"}

\* OnHeartbeat resolving the vehicle type before the record is built
OnHeartbeatPartial(msg, timestamp) ==
    IF HasAll(msg, HeartbeatFields)
    THEN /\ heartbeat_data' = Append(heartbeat_data,
                [timestamp |-> timestamp, type |-> msg.type,
                 autopilot |-> msg.autopilot, base_mode |-> msg.base_mode,
                 custom_mode |-> msg.custom_mode,
                 system_status |-> msg.system_status,
                 mavlink_version |-> msg.mavlink_version])
         /\ parsed_data' =
                [parsed_data EXCEPT
                    !.vehicle_type =
                        IF @ = "Unknown"
                        THEN IF msg.type \in DOMAIN MAV_VEHICLE_TYPES
                             THEN MAV_VEHICLE_TYPES[msg.type]
                             ELSE "Unknown Type " \o ToString(msg.type)
                        ELSE @,
                    !.autopilot_type =
                        IF @ = "Unknown"
                        THEN IF msg.autopilot \in DOMAIN MAV_AUTOPILOT_TYPES
                             THEN MAV_AUTOPILOT_TYPES[msg.autopilot]
                             ELSE "Unknown Autopilot " \o ToString(msg.autopilot)
                        ELSE @]
         /\ UNCHANGED <<altitude_data, battery_data, gps_data, rc_data,
                        attitude_data, modes, system_status>>
    ELSE /\ parsed_data' =
                [parsed_data EXCEPT
                    !.vehicle_type =
                        IF @ = "Unknown" /\ hasattr(msg, "type")
                        THEN IF msg.type \in DOMAIN MAV_VEHICLE_TYPES
                             THEN MAV_VEHICLE_TYPES[msg.type]
                             ELSE "Unknown Type " \o ToString(msg.type)
                        ELSE @]
         /\ UNCHANGED <<altitude_data, battery_data, gps_data, rc_data,
                        attitude_data, modes, heartbeat_data, system_status>>

OnHeartbeat(msg, timestamp) ==
    IF HasAll(msg, HeartbeatFields)
    THEN /\ heartbeat_data' = Append(heartbeat_data,
                [timestamp |-> timestamp, type |-> msg.type,
                 autopilot |-> msg.autopilot, base_mode |-> msg.base_mode,
                 custom_mode |-> msg.custom_mode,
                 system_status |-> msg.system_status,
                 mavlink_version |-> msg.mavlink_version])
         /\ parsed_data' =
                [parsed_data EXCEPT
                    !.vehicle_type =
                        IF @ = "Unknown"
                        THEN IF msg.type \in DOMAIN MAV_VEHICLE_TYPES
                             THEN MAV_VEHICLE_TYPES[msg.type]
                             ELSE "Unknown Type " \o ToString(msg.type)
                        ELSE @,
                    !.autopilot_type =
                        IF @ = "Unknown"
                        THEN IF msg.autopilot \in DOMAIN MAV_AUTOPILOT_TYPES
                             THEN MAV_AUTOPILOT_TYPES[msg.autopilot]
                             ELSE "Unknown Autopilot " \o ToString(msg.autopilot)
                        ELSE @]
         /\ UNCHANGED <<altitude_data, battery_data, gps_data, rc_data,
                        attitude_data, modes, system_status>>
    ELSE UNCHANGED extracted      \* AttributeError: warning, continue

SysStatusFields ==
    {"onboard_control_sensors_present", "onboard_control_sensors_enabled",
     "onboard_control_sensors_health", "load", "voltage_battery",
     "current_battery", "battery_remaining", "drop_rate_comm"}

\* the dict the SYS_STATUS branch appends
SysStatusRecord(msg, timestamp) ==
    [timestamp |-> timestamp,
     onboard_control_sensors_present |-> msg.onboard_control_sensors_present,
     onboard_control_sensors_enabled |-> msg.onboard_control_sensors_enabled,
     onboard_control_sensors_health |-> msg.onboard_control_sensors_health,
     load |-> msg.load, voltage_battery |-> msg.voltage_battery,
     current_battery |-> msg.current_battery,
     battery_remaining |-> msg.battery_remaining,
     drop_rate_comm |-> msg.drop_rate_comm]

OnSysStatus(msg, timestamp) ==
    IF HasAll(msg, SysStatusFields)
    THEN /\ system_status' =
                Append(system_status, SysStatusRecord(msg, timestamp))
         /\ UNCHANGED <<parsed_data, altitude_data, battery_data, gps_data,
                        rc_data, attitude_data, modes, heartbeat_data>>
    ELSE UNCHANGED extracted      \* AttributeError: warning, continue

\* GPS, GPS2, GPS_RAW_INT, GLOBAL_POSITION_INT
OnGps(msg, timestamp, msg_type) ==
    LET gps_info == _extract_gps_data(msg, timestamp, msg_type)
    IN  /\ altitude_data' =
               IF gps_info # None /\ hasattr(gps_info[1], "altitude")
               THEN Append(altitude_data, gps_info[1]) ELSE altitude_data
        /\ gps_data' = AppendSome(gps_data, gps_info)
        /\ UNCHANGED <<parsed_data, battery_data, rc_data, attitude_data,
                       modes, heartbeat_data, system_status>>

OnGpa(msg, timestamp, msg_type) ==
    LET gps_info == _extract_gps_data(msg, timestamp, msg_type)
    IN  /\ gps_data' =
               IF gps_info # None
                  /\ (hasattr(gps_info[1], "hdop") \/ hasattr(gps_info[1], "vdop"))
               THEN Append(gps_data, gps_info[1]) ELSE gps_data
        /\ UNCHANGED <<parsed_data, altitude_data, battery_data, rc_data,
                       attitude_data, modes, heartbeat_data, system_status>>

\* OnPosition routing the position record into gps_data as well
OnPositionAlsoGps(msg, timestamp, msg_type) ==
    /\ altitude_data' =
           AppendSome(altitude_data, _extract_position_data(msg, timestamp, msg_type))
    /\ gps_data' =
           AppendSome(gps_data, _extract_position_data(msg, timestamp, msg_type))
    /\ UNCHANGED <<parsed_data, battery_data, rc_data, attitude_data,
                   modes, heartbeat_data, system_status>>

OnPosition(msg, timestamp, msg_type) ==
    /\ altitude_data' =
           AppendSome(altitude_data, _extract_position_data(msg, timestamp, msg_type))
    /\ UNCHANGED <<parsed_data, battery_data, gps_data, rc_data, attitude_data,
                   modes, heartbeat_data, system_status>>

\* CTUN, NTUN
OnTuning(msg, timestamp, msg_type) ==
    /\ altitude_data' =
           IF hasattr(msg, "Alt")
           THEN Append(altitude_data,
                       [timestamp |-> timestamp, absolute_alt |-> msg.Alt,
                        relative_alt |-> msg.Alt, altitude |-> msg.Alt,
                        altitude_source |-> msg_type])
           ELSE altitude_data
    /\ UNCHANGED <<parsed_data, battery_data, gps_data, rc_data, attitude_data,
                   modes, heartbeat_data, system_status>>

\* OnBattery putting the new record in front of the earlier ones
OnBatteryPrepends(msg, timestamp, msg_type) ==
    /\ battery_data' =
           LET battery_info == _extract_battery_data(msg, timestamp, msg_type)
           IN  IF battery_info # None
               THEN <<battery_info[1]>> \o battery_data
               ELSE battery_data
    /\ UNCHANGED <<parsed_data, altitude_data, gps_data, rc_data, attitude_data,
                   modes, heartbeat_data, system_status>>

OnBattery(msg, timestamp, msg_type) ==
    /\ battery_data' =
           AppendSome(battery_data, _extract_battery_data(msg, timestamp, msg_type))
    /\ UNCHANGED <<parsed_data, altitude_data, gps_data, rc_data, attitude_data,
                   modes, heartbeat_data, system_status>>

OnRc(msg, timestamp, msg_type) ==
    /\ rc_data' = AppendSome(rc_data, _extract_rc_data(msg, timestamp, msg_type))
    /\ UNCHANGED <<parsed_data, altitude_data, battery_data, gps_data,
                   attitude_data, modes, heartbeat_data, system_status>>

OnAttitude(msg, timestamp, msg_type) ==
    /\ attitude_data' =
           AppendSome(attitude_data, _extract_attitude_data(msg, timestamp, msg_type))
    /\ UNCHANGED <<parsed_data, altitude_data, battery_data, gps_data, rc_data,
                   modes, heartbeat_data, system_status>>

\* OnText admitting Notice (severity 5) as well
OnTextAdmitsNotice(msg, timestamp, msg_type) ==
    LET error_info == _extract_message_data(msg, timestamp, msg_type)
    IN  /\ parsed_data' =
               IF error_info # None /\ error_info[1].severity <= 5
               THEN [parsed_data EXCEPT !.errors = Append(@, error_info[1])]
               ELSE parsed_data
        /\ UNCHANGED <<altitude_data, battery_data, gps_data, rc_data,
                       attitude_data, modes, heartbeat_data, system_status>>

\* MSG, STATUSTEXT, ERR
OnText(msg, timestamp, msg_type) ==
    LET error_info == _extract_message_data(msg, timestamp, msg_type)
    IN  /\ parsed_data' =
               IF error_info # None /\ error_info[1].severity <= 4
               THEN [parsed_data EXCEPT !.errors = Append(@, error_info[1])]
               ELSE parsed_data
        /\ UNCHANGED <<altitude_data, battery_data, gps_data, rc_data,
                       attitude_data, modes, heartbeat_data, system_status>>

\* OnMode without the "still Unknown" test of the fallback
OnModeOverwrites(msg, timestamp) ==
    IF hasattr(msg, "Mode")
    THEN /\ modes' = Append(modes,
                [timestamp |-> timestamp, mode |-> msg.Mode,
                 mode_num |-> IF hasattr(msg, "ModeNum") THEN msg.ModeNum ELSE 0])
         /\ parsed_data' =
                [parsed_data EXCEPT
                    !.vehicle_type = _determine_vehicle_type_from_mode(msg.Mode)]
         /\ UNCHANGED <<altitude_data, battery_data, gps_data, rc_data,
                        attitude_data, heartbeat_data, system_status>>
    ELSE UNCHANGED extracted

OnMode(msg, timestamp) ==
    IF hasattr(msg, "Mode")
    THEN /\ modes' = Append(modes,
                [timestamp |-> timestamp, mode |-> msg.Mode,
                 mode_num |-> IF hasattr(msg, "ModeNum") THEN msg.ModeNum ELSE 0])
         /\ parsed_data' =
                [parsed_data EXCEPT
                    !.vehicle_type =
                        IF @ = "Unknown"
                        THEN _determine_vehicle_type_from_mode(msg.Mode)
                        ELSE @]
         /\ UNCHANGED <<altitude_data, battery_data, gps_data, rc_data,
                        attitude_data, heartbeat_data, system_status>>
    ELSE UNCHANGED extracted

\* the optional sensor series: parsed_data[key] gets the record, if any
OnSensor(key, info) ==
    /\ parsed_data' =
           IF info # None THEN AppendKey(parsed_data, key, info[1])
           ELSE parsed_data
    /\ UNCHANGED <<altitude_data, battery_data, gps_data, rc_data,
                   attitude_data, modes, heartbeat_data, system_status>>

\* the if / elif chain on msg_type
Dispatch(msg, timestamp, msg_type) ==
    IF msg_type = "HEARTBEAT" THEN OnHeartbeat(msg, timestamp)
    ELSE IF msg_type = "SYS_STATUS" THEN OnSysStatus(msg, timestamp)
    ELSE IF msg_type \in {"GPS", "GPS2"} THEN OnGps(msg, timestamp, msg_type)
    ELSE IF msg_type = "GPA" THEN OnGpa(msg, timestamp, msg_type)
    ELSE IF msg_type \in {"GPS_RAW_INT", "GLOBAL_POSITION_INT"}
        THEN OnGps(msg, timestamp, msg_type)
    ELSE IF msg_type \in {"POS", "LOCAL_POSITION_NED"}
        THEN OnPosition(msg, timestamp, msg_type)
    ELSE IF msg_type \in {"CTUN", "NTUN"} THEN OnTuning(msg, timestamp, msg_type)
    ELSE IF msg_type \in {"BAT", "BATTERY_STATUS", "CURR", "POWR"}
        THEN OnBattery(msg, timestamp, msg_type)
    ELSE IF msg_type \in {"RCIN", "RC_CHANNELS", "RC_CHANNELS_RAW", "RCOU"}
        THEN OnRc(msg, timestamp, msg_type)
    ELSE IF msg_type \in {"ATT", "ATTITUDE", "AHR2", "AHR3"}
        THEN OnAttitude(msg, timestamp, msg_type)
    ELSE IF msg_type \in {"MSG", "STATUSTEXT", "ERR"}
        THEN OnText(msg, timestamp, msg_type)
    ELSE IF msg_type = "MODE" THEN OnMode(msg, timestamp)
    ELSE IF msg_type \in {"XKFS", "XKQ", "XKV1", "XKV2", "XKT", "XKFM", "NKF1",
                          "NKF2", "NKF3", "NKF4", "NKF5"}
        THEN OnSensor("ekf_data", _extract_ekf_data(msg, timestamp, msg_type))
    ELSE IF msg_type \in {"IMU", "IMU2", "IMU3", "ACC", "ACC2", "ACC3", "GYR",
                          "GYR2", "GYR3"}
        THEN OnSensor("imu_data", _extract_imu_data(msg, timestamp, msg_type))
    ELSE IF msg_type \in {"BARO", "BAR2", "BAR3"}
        THEN OnSensor("baro_data", _extract_baro_data(msg, timestamp, msg_type))
    ELSE IF msg_type \in {"MAG", "MAG2", "MAG3"}
        THEN OnSensor("mag_data", _extract_mag_data(msg, timestamp, msg_type))
    ELSE IF msg_type = "PM"
        THEN OnSensor("performance_data",
                      _extract_performance_data(msg, timestamp, msg_type))
    ELSE IF msg_type \in {"VIBE", "VIBRATION"}
        THEN OnSensor("vibration_data",
                      _extract_vibration_data(msg, timestamp, msg_type))
    ELSE UNCHANGED extracted

\* mavutil.mavlink_connection(file_path) returned the message source
Open ==
    /\ pc = "open"
    /\ pc' = "loop"
    /\ UNCHANGED <<mlog, parsed_data, message_counts, altitude_data,
                   battery_data, gps_data, rc_data, attitude_data, modes,
                   heartbeat_data, system_status, start_timestamp,
                   end_timestamp, summary, agg, patterns>>

\* OpenFails with the exception swallowed and the initial model returned
OpenFailsReturnsModel ==
    /\ pc = "open"
    /\ pc' = "returned"
    /\ UNCHANGED <<mlog, parsed_data, message_counts, altitude_data,
                   battery_data, gps_data, rc_data, attitude_data, modes,
                   heartbeat_data, system_status, start_timestamp,
                   end_timestamp, summary, agg, patterns>>

\* mavutil.mavlink_connection(file_path) raised: the outer except logs the
\* error and re-raises it to the caller
OpenFails ==
    /\ pc = "open"
    /\ pc' = "raised"
    /\ UNCHANGED <<mlog, parsed_data, message_counts, altitude_data,
                   battery_data, gps_data, rc_data, attitude_data, modes,
                   heartbeat_data, system_status, start_timestamp,
                   end_timestamp, summary, agg, patterns>>

\* RecvMessage setting the count of the type to 1 instead of adding 1
RecvMessageCountsOnce(msg) ==
    /\ pc = "loop"
    /\ Len(mlog) < MaxMsgs
    /\ mlog' = Append(mlog, msg)
    /\ LET msg_type == msg.mtype
           timestamp == Timestamp(msg)
       IN  /\ start_timestamp' =
                  IF start_timestamp = None /\ timestamp > 0
                  THEN Some(timestamp) ELSE start_timestamp
           /\ end_timestamp' =
                  IF timestamp > 0 THEN Some(timestamp) ELSE end_timestamp
           /\ message_counts' = (msg_type :> 1) @@ message_counts
           /\ Dispatch(msg, timestamp, msg_type)
    /\ UNCHANGED <<pc, summary, agg, patterns>>

\* one iteration of the while loop: recv_match returned msg
RecvMessage(msg) ==
    /\ pc = "loop"
    /\ Len(mlog) < MaxMsgs
    /\ mlog' = Append(mlog, msg)
    /\ LET msg_type == msg.mtype
           timestamp == Timestamp(msg)
       IN  /\ start_timestamp' =
                  IF start_timestamp = None /\ timestamp > 0
                  THEN Some(timestamp) ELSE start_timestamp
           /\ end_timestamp' =
                  IF timestamp > 0 THEN Some(timestamp) ELSE end_timestamp
           /\ message_counts' =
                  IF msg_type \in DOMAIN message_counts
                  THEN [message_counts EXCEPT ![msg_type] = @ + 1]
                  ELSE message_counts @@ (msg_type :> 1)
           /\ Dispatch(msg, timestamp, msg_type)
    /\ UNCHANGED <<pc, summary, agg, patterns>>

\* recv_match returned None: leave the loop, finish the model and return it
EndOfStream ==
    /\ pc = "loop"
    /\ pc' = "returned"
    /\ parsed_data' =
           LET timed ==
                   IF start_timestamp # None /\ end_timestamp # None
                      /\ Truthy(start_timestamp[1]) /\ Truthy(end_timestamp[1])
                   THEN [start_time |-> datetime_fromtimestamp(start_timestamp[1]),
                         end_time |-> datetime_fromtimestamp(end_timestamp[1]),
                         flight_duration |->
                             FlSub(end_timestamp[1], start_timestamp[1])]
                   ELSE <<>>
               stats == _analyze_flight_data(altitude_data, battery_data,
                                             gps_data, rc_data, attitude_data,
                                             system_status)
           IN  [flight_stats |-> stats, message_counts |-> message_counts,
                altitude_data |-> altitude_data, battery_data |-> battery_data,
                gps_data |-> gps_data, rc_data |-> rc_data,
                attitude_data |-> attitude_data, modes |-> modes,
                heartbeat_data |-> heartbeat_data,
                system_status |-> system_status]
               @@ timed @@ parsed_data
    /\ UNCHANGED <<mlog, message_counts, altitude_data, battery_data, gps_data,
                   rc_data, attitude_data, modes, heartbeat_data,
                   system_status, start_timestamp, end_timestamp, summary,
                   agg, patterns>>

\* GenerateSummary with the exception leaving generate_summary
GenerateSummaryPropagating ==
    /\ pc = "returned"
    /\ IF SummaryRaises(parsed_data)
       THEN pc' = "summary_raised" /\ UNCHANGED summary
       ELSE /\ summary' = Some(Join(" | ", SummaryParts(parsed_data)))
            /\ UNCHANGED pc
    /\ UNCHANGED <<mlog, parsed_data, message_counts, altitude_data,
                   battery_data, gps_data, rc_data, attitude_data, modes,
                   heartbeat_data, system_status, start_timestamp,
                   end_timestamp, agg, patterns>>

\* the caller renders the summary of the returned model, the first or a
\* later time
GenerateSummary ==
    /\ pc = "returned"
    /\ summary' = Some(generate_summary(parsed_data))
    /\ UNCHANGED <<pc, mlog, parsed_data, message_counts, altitude_data,
                   battery_data, gps_data, rc_data, attitude_data, modes,
                   heartbeat_data, system_status, start_timestamp,
                   end_timestamp, agg, patterns>>

\* DetectPatterns keeping its result in the flight model it was handed
DetectPatternsStoring ==
    /\ pc = "returned"
    /\ patterns' = Some(detect_patterns_and_changes(parsed_data))
    /\ parsed_data' = ("patterns" :> patterns'[1]) @@ parsed_data
    /\ UNCHANGED <<pc, mlog, message_counts, altitude_data,
                   battery_data, gps_data, rc_data, attitude_data, modes,
                   heartbeat_data, system_status, start_timestamp,
                   end_timestamp, summary, agg>>

\* a call of detect_patterns_and_changes on the flight model, the first or
\* a later one
DetectPatterns ==
    /\ pc = "returned"
    /\ patterns' = Some(detect_patterns_and_changes(parsed_data))
    /\ UNCHANGED <<pc, mlog, parsed_data, message_counts, altitude_data,
                   battery_data, gps_data, rc_data, attitude_data, modes,
                   heartbeat_data, system_status, start_timestamp,
                   end_timestamp, summary, agg>>

\* the call of parse_file; the locals are shown with the values lines 43-67
\* give them once the source is open
Init ==
    /\ pc = "open"
    /\ mlog = <<>>
    /\ parsed_data = [messages |-> <<>>, flight_stats |-> <<>>,
                      timeline |-> <<>>, errors |-> <<>>, start_time |-> None,
                      end_time |-> None, vehicle_type |-> "Unknown",
                      autopilot_type |-> "Unknown", vehicle_id |-> None,
                      component_id |-> None]
    /\ message_counts = <<>>
    /\ altitude_data = <<>>
    /\ battery_data = <<>>
    /\ gps_data = <<>>
    /\ rc_data = <<>>
    /\ attitude_data = <<>>
    /\ modes = <<>>
    /\ heartbeat_data = <<>>
    /\ system_status = <<>>
    /\ start_timestamp = None
    /\ end_timestamp = None
    /\ summary = None
    /\ agg = [runs |-> 0]
    /\ patterns = None

Next ==
    \/ Open
    \/ OpenFails
    \/ \E msg \in Messages : RecvMessage(msg)
    \/ EndOfStream
    \/ GenerateSummary
    \/ DetectPatterns

Spec == Init /\ [][Next]_vars

(***************************************************************************)
(* The aggregator on its own: _analyze_flight_data is handed completed     *)
(* buffers and run MaxRuns times on them.  The buffers hold records the    *)
(* extractors build.                                                       *)
(***************************************************************************)
\* the lists of length n over a set of records
Lists(S, n) == [1..n -> S]

InitAgg ==
    LET \* the records an extractor builds from a set of messages
        Extracted(results) == {r[1] : r \in {x \in results : x # None}}
        FromPosition(msgs) ==
            Extracted({_extract_position_data(m, Timestamp(m), m.mtype) : m \in msgs})
        FromGps(msgs) ==
            Extracted({_extract_gps_data(m, Timestamp(m), m.mtype) : m \in msgs})
        FromRc(msgs) ==
            Extracted({_extract_rc_data(m, Timestamp(m), m.mtype) : m \in msgs})
        FromBattery(msgs) ==
            Extracted({_extract_battery_data(m, Timestamp(m), m.mtype) : m \in msgs})
        FromAttitude(msgs) ==
            Extracted({_extract_attitude_data(m, Timestamp(m), m.mtype) : m \in msgs})
        AltitudeRecords ==
            FromPosition({[mtype |-> "POS", TimeUS |-> 1000000, Alt |-> 26],
                          [mtype |-> "POS", TimeUS |-> 2000000, Alt |-> 30, RelAlt |-> 10],
                          [mtype |-> "POS", TimeUS |-> 3000000, Alt |-> 50]})
            \cup FromGps({x \in GpsMessages : x.mtype = "GPS_RAW_INT"})
        GpsRecords ==
            FromGps(GpsMessages \cup
                      {[mtype |-> "GPS", TimeUS |-> 1000000, Status |-> 3, Lat |-> 10,
                        Lng |-> 20, Alt |-> 26, NSats |-> 9]})
        RcRecords ==
            FromRc(RcMessages \cup
                      {[mtype |-> "RC_CHANNELS", _timestamp |-> 5, chan1_raw |-> 15,
                        chan2_raw |-> 15, chan3_raw |-> 10, chan4_raw |-> 15,
                        rssi |-> 49],
                       [mtype |-> "RC_CHANNELS", _timestamp |-> 6, chan1_raw |-> 15,
                        chan2_raw |-> 15, chan3_raw |-> 10, chan4_raw |-> 15,
                        rssi |-> 50]})
        BatteryRecords ==
            FromBattery({x \in FlightMessages : x.mtype \in {"BAT", "BATTERY_STATUS"}}
                      \cup {[mtype |-> "CURR", TimeUS |-> 3000000, Volt |-> 10,
                             Curr |-> 4]})
        AttitudeRecords ==
            FromAttitude({x \in FlightMessages : x.mtype \in {"ATT", "ATTITUDE"}})
        SystemRecords ==
            {SysStatusRecord(m, Timestamp(m)) :
                m \in {[x EXCEPT !.load = l] :
                          x \in {y \in FlightMessages : y.mtype = "SYS_STATUS"},
                          l \in {250, 500}}}
    IN  /\ \E la \in 0..MaxRecs : \E lb \in 0..(MaxRecs - la) :
           \E lg \in 0..(MaxRecs - la - lb) :
           \E lr \in 0..(MaxRecs - la - lb - lg) :
           \E lt \in 0..(MaxRecs - la - lb - lg - lr) :
           \E ls \in 0..(MaxRecs - la - lb - lg - lr - lt) :
               /\ altitude_data \in Lists(AltitudeRecords, la)
               /\ battery_data \in Lists(BatteryRecords, lb)
               /\ gps_data \in Lists(GpsRecords, lg)
               /\ rc_data \in Lists(RcRecords, lr)
               /\ attitude_data \in Lists(AttitudeRecords, lt)
               /\ system_status \in Lists(SystemRecords, ls)
        /\ agg = [runs |-> 0, given |-> buffers]
        /\ pc = "aggregate"
        /\ mlog = <<>>
        /\ parsed_data = <<>>
        /\ message_counts = <<>>
        /\ modes = <<>>
        /\ heartbeat_data = <<>>
        /\ start_timestamp = None
        /\ end_timestamp = None
        /\ summary = None
        /\ patterns = None

\* Analyze draining the RC buffer it has counted
AnalyzeConsuming ==
    /\ pc = "aggregate"
    /\ agg.runs < MaxRuns
    /\ LET stats == _analyze_flight_data(altitude_data, battery_data, gps_data,
                                         rc_data, attitude_data, system_status)
       IN  agg' = [runs |-> agg.runs + 1, given |-> agg.given, stats |-> stats,
                   first |-> IF agg.runs = 0 THEN stats ELSE agg.first]
    /\ rc_data' = <<>>
    /\ UNCHANGED <<pc, mlog, parsed_data, message_counts, altitude_data,
                   battery_data, gps_data, attitude_data, modes,
                   heartbeat_data, system_status, start_timestamp,
                   end_timestamp, summary, patterns>>

\* one call of _analyze_flight_data on the buffers
Analyze ==
    /\ pc = "aggregate"
    /\ agg.runs < MaxRuns
    /\ LET stats == _analyze_flight_data(altitude_data, battery_data, gps_data,
                                         rc_data, attitude_data, system_status)
       IN  agg' = [runs |-> agg.runs + 1, given |-> agg.given, stats |-> stats,
                   first |-> IF agg.runs = 0 THEN stats ELSE agg.first]
    /\ UNCHANGED <<pc, mlog, parsed_data, message_counts, altitude_data,
                   battery_data, gps_data, rc_data, attitude_data, modes,
                   heartbeat_data, system_status, start_timestamp,
                   end_timestamp, summary, patterns>>

NextAgg == Analyze

SpecAgg == InitAgg /\ [][NextAgg]_vars

(***************************************************************************)
(* The pattern extractor on its own: detect_patterns_and_changes is handed *)
(* a flight model whose series run up to and past the payload caps.        *)
(***************************************************************************)
InitPat ==
    LET \* series lengths: near empty and around a cap
        LengthsAround(cap) == (0..Overshoot) \cup ((cap - Overshoot)..(cap + Overshoot))
        Shapes == {1, 2}
        \* shape 2 climbs steeply at a record past the payload cap
        AltitudeSeries(n, shape) ==
            [i \in 1..n |->
                LET a == ((i * i * shape) % 11) + shape
                             + (IF shape = 2 /\ i = SeriesCap + 2 THEN 16 ELSE 0)
                IN  [timestamp |-> i % 30, absolute_alt |-> a, relative_alt |-> a,
                     altitude |-> a, altitude_source |-> "CTUN"]]
        BatterySeries(n, shape) ==
            [i \in 1..n |->
                IF i % 4 = shape
                THEN [timestamp |-> i % 30, battery_function |-> 0, battery_type |-> 1,
                      remaining |-> 80, message_type |-> "BATTERY_STATUS"]
                ELSE [timestamp |-> i % 30, voltage |-> 10 + ((i * shape) % 5),
                      current |-> 3, message_type |-> "BAT"]]
        GpsSeries(n, shape) ==
            [i \in 1..n |->
                IF i % 5 = shape
                THEN [timestamp |-> i % 30, message_type |-> "GPA", hdop |-> 1,
                      message_subtype |-> "accuracy"]
                ELSE [timestamp |-> i % 30, message_type |-> "GPS_RAW_INT",
                      latitude |-> 10, longitude |-> 20, absolute_alt |-> 26,
                      altitude |-> 26, fix_type |-> (i + shape) % 5,
                      satellites |-> 5, hdop |-> 2]]
        AttitudeSeries(n, shape) ==
            [i \in 1..n |->
                [timestamp |-> i % 30, roll |-> ((i * shape) % 7) - 3,
                 pitch |-> (i % 5) - 2, yaw |-> 0, message_type |-> "ATT"]]
        ErrorSeries(n, shape) ==
            [i \in 1..n |->
                [timestamp |-> i % 30, severity |-> ERROR,
                 text |-> "Subsystem " \o ToString(i * shape) \o ": Error 1",
                 subsystem |-> i * shape, error_code |-> 1, message_type |-> "ERR"]]
    IN  /\ \E n \in LengthsAround(SeriesCap), k \in LengthsAround(ErrorCap),
              shape \in Shapes :
               parsed_data =
                   [flight_stats |-> <<>>, vehicle_type |-> "Unknown",
                    autopilot_type |-> "Unknown",
                    altitude_data |-> AltitudeSeries(n, shape),
                    battery_data |-> BatterySeries(n, shape),
                    gps_data |-> GpsSeries(n, shape),
                    attitude_data |-> AttitudeSeries(n, shape),
                    errors |-> ErrorSeries(k, shape)]
        /\ patterns = None
        /\ pc = "returned"
        /\ mlog = <<>>
        /\ message_counts = <<>>
        /\ altitude_data = <<>>
        /\ battery_data = <<>>
        /\ gps_data = <<>>
        /\ rc_data = <<>>
        /\ attitude_data = <<>>
        /\ modes = <<>>
        /\ heartbeat_data = <<>>
        /\ system_status = <<>>
        /\ start_timestamp = None
        /\ end_timestamp = None
        /\ summary = None
        /\ agg = [runs |-> 0]

NextPat == DetectPatterns

SpecPat == InitPat /\ [][NextPat]_vars

(***************************************************************************)
(* Two parse_file invocations on the one MAVLinkParser instance            *)
(* (main.py, mavlink_parser), interleaved.  parse_file keeps all its state *)
(* in local variables; the instance holds only the tables __init__ reads   *)
(* from types.py.  The variables are the frame of the invocation that is   *)
(* running, agg.other is the frame of the suspended one, and Switch        *)
(* resumes the other invocation.                                           *)
(***************************************************************************)
\* the local variables of one parse_file invocation
Frame ==
    <<pc, mlog, parsed_data, message_counts, altitude_data, battery_data,
      gps_data, rc_data, attitude_data, modes, heartbeat_data, system_status,
      start_timestamp, end_timestamp>>

\* the streams of the two logs are made of these messages
ParMessages ==
    {m \in HeartbeatMessages : m.type = 2}
    \cup {m \in GpsMessages : m.mtype \in {"GPA", "GPS_RAW_INT"}}
    \cup {m \in ModeMessages : hasattr(m, "Mode") /\ m.Mode = "MANUAL"}

InitPar ==
    /\ pc = "open"
    /\ mlog = <<>>
    /\ parsed_data = [messages |-> <<>>, flight_stats |-> <<>>,
                      timeline |-> <<>>, errors |-> <<>>, start_time |-> None,
                      end_time |-> None, vehicle_type |-> "Unknown",
                      autopilot_type |-> "Unknown", vehicle_id |-> None,
                      component_id |-> None]
    /\ message_counts = <<>>
    /\ altitude_data = <<>>
    /\ battery_data = <<>>
    /\ gps_data = <<>>
    /\ rc_data = <<>>
    /\ attitude_data = <<>>
    /\ modes = <<>>
    /\ heartbeat_data = <<>>
    /\ system_status = <<>>
    /\ start_timestamp = None
    /\ end_timestamp = None
    /\ summary = None
    /\ patterns = None
    /\ agg = [running |-> 1, other |-> Frame]

\* Switch with gps_data kept on the instance, shared by both invocations
SwitchSharingGps ==
    /\ agg' = [running |-> 3 - agg.running, other |-> Frame]
    /\ pc' = agg.other[1]
    /\ mlog' = agg.other[2]
    /\ parsed_data' = agg.other[3]
    /\ message_counts' = agg.other[4]
    /\ altitude_data' = agg.other[5]
    /\ battery_data' = agg.other[6]
    /\ gps_data' = gps_data
    /\ rc_data' = agg.other[8]
    /\ attitude_data' = agg.other[9]
    /\ modes' = agg.other[10]
    /\ heartbeat_data' = agg.other[11]
    /\ system_status' = agg.other[12]
    /\ start_timestamp' = agg.other[13]
    /\ end_timestamp' = agg.other[14]
    /\ UNCHANGED <<summary, patterns>>

\* the other invocation is resumed: each one runs on its own locals
Switch ==
    /\ agg' = [running |-> 3 - agg.running, other |-> Frame]
    /\ pc' = agg.other[1]
    /\ mlog' = agg.other[2]
    /\ parsed_data' = agg.other[3]
    /\ message_counts' = agg.other[4]
    /\ altitude_data' = agg.other[5]
    /\ battery_data' = agg.other[6]
    /\ gps_data' = agg.other[7]
    /\ rc_data' = agg.other[8]
    /\ attitude_data' = agg.other[9]
    /\ modes' = agg.other[10]
    /\ heartbeat_data' = agg.other[11]
    /\ system_status' = agg.other[12]
    /\ start_timestamp' = agg.other[13]
    /\ end_timestamp' = agg.other[14]
    /\ UNCHANGED <<summary, patterns>>

NextPar ==
    \/ Switch
    \/ Open
    \/ \E msg \in ParMessages : RecvMessage(msg)
    \/ EndOfStream

SpecPar == InitPar /\ [][NextPar]_vars

(***************************************************************************)
(* The severity classifier on its own: _determine_message_severity is      *)
(* handed MSG texts of one or two words, keywords of every bucket in       *)
(* either case among them.                                                 *)
(***************************************************************************)
InitSev ==
    LET SeverityWords ==
            {"Critical", "failsafe", "ERROR", "fail", "timeout", "Warning", "caution",
             "armed", "disarmed", "Mode", "takeoff", "gps"}
        MessageTexts ==
            SeverityWords \cup {v \o " " \o w : v, w \in SeverityWords}
    IN  /\ agg \in [text : MessageTexts]
        /\ pc = "classify"
        /\ mlog = <<>>
        /\ parsed_data = <<>>
        /\ message_counts = <<>>
        /\ altitude_data = <<>>
        /\ battery_data = <<>>
        /\ gps_data = <<>>
        /\ rc_data = <<>>
        /\ attitude_data = <<>>
        /\ modes = <<>>
        /\ heartbeat_data = <<>>
        /\ system_status = <<>>
        /\ start_timestamp = None
        /\ end_timestamp = None
        /\ summary = None
        /\ patterns = None

\* one call of _determine_message_severity on the text
Classify ==
    /\ pc = "classify"
    /\ "severity" \notin DOMAIN agg
    /\ agg' = [text |-> agg.text,
               severity |-> _determine_message_severity(agg.text)]
    /\ UNCHANGED <<pc, mlog, parsed_data, message_counts, altitude_data,
                   battery_data, gps_data, rc_data, attitude_data, modes,
                   heartbeat_data, system_status, start_timestamp,
                   end_timestamp, summary, patterns>>

NextSev == Classify

SpecSev == InitSev /\ [][NextSev]_vars

(***************************************************************************)
(***************************************************************************)
(* The mode-name fallback on its own: _determine_vehicle_type_from_mode is *)
(* handed, one after the other, the two mode names of a stream; the names  *)
(* are those of the four lists and some that are in no list.               *)
(***************************************************************************)
InitMode ==
    LET ModeNames ==
            MULTICOPTER_MODES \cup FIXED_WING_MODES \cup ROVER_MODES
                \cup HELICOPTER_MODES
                \cup {"CUSTOM", "stabilize", "", "HELI", "Auto", "UNKNOWN"}
    IN  /\ agg \in [names : ModeNames \X ModeNames, resolved : {<<>>}]
        /\ pc = "resolve"
        /\ mlog = <<>>
        /\ parsed_data = <<>>
        /\ message_counts = <<>>
        /\ altitude_data = <<>>
        /\ battery_data = <<>>
        /\ gps_data = <<>>
        /\ rc_data = <<>>
        /\ attitude_data = <<>>
        /\ modes = <<>>
        /\ heartbeat_data = <<>>
        /\ system_status = <<>>
        /\ start_timestamp = None
        /\ end_timestamp = None
        /\ summary = None
        /\ patterns = None

\* one call of _determine_vehicle_type_from_mode on the next name
ResolveMode ==
    /\ pc = "resolve"
    /\ Len(agg.resolved) < Len(agg.names)
    /\ agg' = [agg EXCEPT
                  !.resolved =
                      Append(@, _determine_vehicle_type_from_mode(
                                    agg.names[Len(agg.resolved) + 1]))]
    /\ UNCHANGED <<pc, mlog, parsed_data, message_counts, altitude_data,
                   battery_data, gps_data, rc_data, attitude_data, modes,
                   heartbeat_data, system_status, start_timestamp,
                   end_timestamp, summary, patterns>>

NextMode == ResolveMode

SpecMode == InitMode /\ [][NextMode]_vars

(***************************************************************************)
(* One parse of a given finite stream.  The stream is fixed when the file  *)
(* is opened; a part of it the decoder cannot read makes recv_match raise  *)
(* and is left behind by the decoder.  The read position is the number of  *)
(* messages pulled plus the number of reads that raised.                   *)
(***************************************************************************)
ReadPosition == Len(mlog) + agg.read_errors

InitLive ==
    LET BadData == [mtype |-> "BAD_DATA"]
        LiveMessages == ParMessages \cup FailingMessages
        Streams ==
            UNION {[1..n -> LiveMessages \cup {BadData}] : n \in 0..MaxMsgs}
    IN  /\ agg \in [stream : Streams, read_errors : {0}]
        /\ pc = "open"
        /\ mlog = <<>>
        /\ parsed_data = [messages |-> <<>>, flight_stats |-> <<>>,
                          timeline |-> <<>>, errors |-> <<>>, start_time |-> None,
                          end_time |-> None, vehicle_type |-> "Unknown",
                          autopilot_type |-> "Unknown", vehicle_id |-> None,
                          component_id |-> None]
        /\ message_counts = <<>>
        /\ altitude_data = <<>>
        /\ battery_data = <<>>
        /\ gps_data = <<>>
        /\ rc_data = <<>>
        /\ attitude_data = <<>>
        /\ modes = <<>>
        /\ heartbeat_data = <<>>
        /\ system_status = <<>>
        /\ start_timestamp = None
        /\ end_timestamp = None
        /\ summary = None
        /\ patterns = None

\* recv_match returns the next message of the stream
PullNext ==
    /\ ReadPosition < Len(agg.stream)
    /\ agg.stream[ReadPosition + 1].mtype # "BAD_DATA"
    /\ RecvMessage(agg.stream[ReadPosition + 1])

\* recv_match raises: the handler of the loop logs msg_type and continues;
\* before the first message msg_type is unbound, the handler itself raises
\* and parse_file re-raises
ReadRaises ==
    /\ pc = "loop"
    /\ ReadPosition < Len(agg.stream)
    /\ agg.stream[ReadPosition + 1].mtype = "BAD_DATA"
    /\ agg' = [agg EXCEPT !.read_errors = @ + 1]
    /\ pc' = IF mlog = <<>> THEN "raised" ELSE "loop"
    /\ UNCHANGED <<mlog, parsed_data, message_counts, altitude_data,
                   battery_data, gps_data, rc_data, attitude_data, modes,
                   heartbeat_data, system_status, start_timestamp,
                   end_timestamp, summary, patterns>>

\* recv_match returns None
Exhausted ==
    /\ ReadPosition = Len(agg.stream)
    /\ EndOfStream

NextLive ==
    \/ Open
    \/ OpenFails
    \/ PullNext
    \/ ReadRaises
    \/ Exhausted

\* the interpreter runs the single thread of the parse on
SpecLive == InitLive /\ [][NextLive]_vars /\ WF_vars(NextLive)

(***************************************************************************)
(* The upload endpoint (main.py, upload_flight_log).  MaxRequests requests *)
(* run on one event loop; a request runs from one await that suspends it   *)
(* (file.read, redis.set) to the next without interruption: parse_file and *)
(* generate_summary never suspend.  pc[r] is the position of request r;    *)
(* agg holds the requests' locals, the working directory and the store.    *)
(* The body of request r is the byte string r.                             *)
(***************************************************************************)
Requests == 1..MaxRequests

\* s.endswith(suffix)
endswith(s, suffix) ==
    /\ Len(s) >= Len(suffix)
    /\ SubSeq(s, Len(s) - Len(suffix) + 1, Len(s)) = suffix

\* the file type test of the endpoint
Supported(filename) == endswith(filename, ".bin") \/ endswith(filename, ".tlog")

temp_path(filename) == "temp_" \o filename

redis_key(filename, timestamp) == filename \o ":" \o timestamp

summary_key(filename, timestamp) == "summary:" \o filename \o ":" \o timestamp

InitUpload ==
    LET Filenames == {"log1.bin", "log1.tlog", "log1.txt"}
        QueryTimestamps == {"20240607T153000", "20240607T160000"}
    IN  /\ \E name \in [Requests -> Filenames] :
           \E stamp \in [Requests -> QueryTimestamps] :
               agg = [request |->
                          [r \in Requests |->
                              [filename |-> name[r], timestamp |-> stamp[r],
                               body |-> r, content |-> 0, parsed |-> 0,
                               written |-> 0, removed |-> 0, status |-> 0]],
                      files |-> <<>>,
                      redis |-> <<>>]
        /\ pc = [r \in Requests |-> "validate"]
        /\ mlog = <<>>
        /\ parsed_data = <<>>
        /\ message_counts = <<>>
        /\ altitude_data = <<>>
        /\ battery_data = <<>>
        /\ gps_data = <<>>
        /\ rc_data = <<>>
        /\ attitude_data = <<>>
        /\ modes = <<>>
        /\ heartbeat_data = <<>>
        /\ system_status = <<>>
        /\ start_timestamp = None
        /\ end_timestamp = None
        /\ summary = None
        /\ patterns = None

\* what the web layer leaves alone
parser_state ==
    <<mlog, parsed_data, message_counts, altitude_data, battery_data, gps_data,
      rc_data, attitude_data, modes, heartbeat_data, system_status,
      start_timestamp, end_timestamp, summary, patterns>>

\* entry to the endpoint up to `await file.read()`.  The HTTPException(400)
\* of the file type test is raised inside the try block, caught by
\* `except Exception` and replaced by HTTPException(500).
UploadValidate(r) ==
    /\ pc[r] = "validate"
    /\ IF Supported(agg.request[r].filename)
       THEN /\ pc' = [pc EXCEPT ![r] = "file_read"]
            /\ agg' = agg
       ELSE /\ pc' = [pc EXCEPT ![r] = "done"]
            /\ agg' = [agg EXCEPT !.request[r].status = 500]
    /\ UNCHANGED parser_state

\* from the return of file.read() to `await redis.set(redis_key, ...)`:
\* the temp file is written, parsed, and the model is sent to the store
UploadParse(r) ==
    /\ pc[r] = "file_read"
    /\ LET req == agg.request[r]
           path == temp_path(req.filename)
           files == (path :> req.body) @@ agg.files
       IN  agg' = [agg EXCEPT
                      !.request[r].content = req.body,
                      !.request[r].written = @ + 1,
                      !.request[r].parsed = files[path],
                      !.files = files,
                      !.redis = (redis_key(req.filename, req.timestamp)
                                     :> [value |-> files[path], by |-> r])
                                @@ @]
    /\ pc' = [pc EXCEPT ![r] = "data_stored"]
    /\ UNCHANGED parser_state

\* from the return of the first redis.set to the second one
UploadSummarise(r) ==
    /\ pc[r] = "data_stored"
    /\ LET req == agg.request[r]
       IN  agg' = [agg EXCEPT
                      !.redis = (summary_key(req.filename, req.timestamp)
                                     :> [value |-> req.parsed, by |-> r])
                                @@ @]
    /\ pc' = [pc EXCEPT ![r] = "summary_stored"]
    /\ UNCHANGED parser_state

\* from the return of the second redis.set to the response: os.remove
\* raises FileNotFoundError when the path is gone, which the handler turns
\* into HTTPException(500)
UploadCleanup(r) ==
    /\ pc[r] = "summary_stored"
    /\ LET path == temp_path(agg.request[r].filename)
       IN  IF path \in DOMAIN agg.files
           THEN agg' = [agg EXCEPT
                           !.files = [q \in DOMAIN agg.files \ {path} |->
                                         agg.files[q]],
                           !.request[r].removed = @ + 1,
                           !.request[r].status = 200]
           ELSE agg' = [agg EXCEPT !.request[r].status = 500]
    /\ pc' = [pc EXCEPT ![r] = "done"]
    /\ UNCHANGED parser_state

NextUpload ==
    \E r \in Requests :
        \/ UploadValidate(r)
        \/ UploadParse(r)
        \/ UploadSummarise(r)
        \/ UploadCleanup(r)

SpecUpload == InitUpload /\ [][NextUpload]_vars

(***************************************************************************)
(* The chat endpoint (main.py, chat_with_bot).  MaxRequests requests for   *)
(* the same filename:timestamp run on one event loop, each from one await  *)
(* that suspends it (redis.get, the agent's reply, redis.set) to the next. *)
(* agg holds the requests' locals and the two store entries of the key.    *)
(***************************************************************************)
\* the agent's reply; process_message catches its own errors
Reply(content) == "re: " \o content

InitChat ==
    LET \* what request r asks
        Questions(r) ==
            {"max altitude? #" \o ToString(r), "any errors? #" \o ToString(r)}
        \* the history stored before the requests arrive
        EarlierHistory ==
            {<<>>,
             <<[role |-> "user", content |-> "hello"],
               [role |-> "assistant", content |-> Reply("hello")]>>}
    IN  /\ \E content \in [Requests -> UNION {Questions(r) : r \in Requests}] :
           \E loaded \in BOOLEAN, earlier \in EarlierHistory :
               /\ \A r \in Requests : content[r] \in Questions(r)
               /\ agg = [request |->
                             [r \in Requests |->
                                 [content |-> content[r], history |-> <<>>,
                                  replied |-> FALSE, status |-> 0]],
                         flight_data |-> loaded,
                         chat_history |-> earlier]
        /\ pc = [r \in Requests |-> "get_flight_data"]
        /\ mlog = <<>>
        /\ parsed_data = <<>>
        /\ message_counts = <<>>
        /\ altitude_data = <<>>
        /\ battery_data = <<>>
        /\ gps_data = <<>>
        /\ rc_data = <<>>
        /\ attitude_data = <<>>
        /\ modes = <<>>
        /\ heartbeat_data = <<>>
        /\ system_status = <<>>
        /\ start_timestamp = None
        /\ end_timestamp = None
        /\ summary = None
        /\ patterns = None

\* get_flight_data returns: without flight data the request is answered
\* with the info message, else it goes on to `await get_chat_history`
ChatGetFlightData(r) ==
    /\ pc[r] = "get_flight_data"
    /\ IF agg.flight_data
       THEN /\ pc' = [pc EXCEPT ![r] = "get_chat_history"]
            /\ agg' = agg
       ELSE /\ pc' = [pc EXCEPT ![r] = "done"]
            /\ agg' = [agg EXCEPT !.request[r].status = 200]
    /\ UNCHANGED parser_state

\* get_chat_history returns the stored list; the user message is appended
\* to the request's copy, then `await chatbot_agent.process_message`
ChatGetHistory(r) ==
    /\ pc[r] = "get_chat_history"
    /\ agg' = [agg EXCEPT
                  !.request[r].history =
                      Append(agg.chat_history,
                             [role |-> "user",
                              content |-> agg.request[r].content])]
    /\ pc' = [pc EXCEPT ![r] = "process_message"]
    /\ UNCHANGED parser_state

\* the agent has replied: the reply is appended to the request's copy and
\* save_chat_history stores the copy under the key
ChatSaveHistory(r) ==
    /\ pc[r] = "process_message"
    /\ LET history ==
               Append(agg.request[r].history,
                      [role |-> "assistant",
                       content |-> Reply(agg.request[r].content)])
       IN  agg' = [agg EXCEPT
                      !.request[r].history = history,
                      !.request[r].replied = TRUE,
                      !.request[r].status = 200,
                      !.chat_history = history]
    /\ pc' = [pc EXCEPT ![r] = "done"]
    /\ UNCHANGED parser_state

NextChat ==
    \E r \in Requests :
        \/ ChatGetFlightData(r)
        \/ ChatGetHistory(r)
        \/ ChatSaveHistory(r)

SpecChat == InitChat /\ [][NextChat]_vars

(* The summary formatter on its own: generate_summary is handed flight     *)
(* models with optional values missing, zero, or of another type.          *)
(***************************************************************************)
InitSum ==
    LET \* how an optional numeric value of the model is filled
        Fillings == {"absent", "zero", "number", "text"}
        SummaryRecipes ==
            [vehicle_type : {"Unknown", "Quadcopter"},
             autopilot_type : {"Unknown", "ArduPilot"},
             start_time : {0, 5},
             flight_duration : Fillings,
             max_altitude : Fillings,
             battery : Fillings \ {"zero"},
             gps_loss_events : Fillings,
             severities : {<<>>, <<WARNING>>, <<CRITICAL, WARNING>>}]
        \* the entry of one optional numeric value
        Filled(key, filling, number) ==
            IF filling = "absent" THEN <<>>
            ELSE IF filling = "zero" THEN key :> 0
            ELSE IF filling = "number" THEN key :> number
            ELSE key :> "n/a"
        \* the flight model a recipe describes
        SummaryModel(r) ==
            [vehicle_type |-> r.vehicle_type, autopilot_type |-> r.autopilot_type,
             start_time |-> IF r.start_time = 0 THEN None
                            ELSE datetime_fromtimestamp(r.start_time),
             flight_stats |->
                 Filled("max_altitude", r.max_altitude, 26)
                 @@ Filled("max_battery_voltage", r.battery, 12)
                 @@ Filled("min_battery_voltage",
                           IF r.battery = "text" THEN "number" ELSE r.battery, 10)
                 @@ Filled("gps_loss_events", r.gps_loss_events, 2),
             errors |-> [i \in DOMAIN r.severities |->
                            [timestamp |-> i, severity |-> r.severities[i],
                             text |-> "Battery WARNING", message_type |-> "MSG"]],
             mistyped |->
                 {k \in {"flight_duration", "max_altitude", "gps_loss_events"} :
                     r[k] = "text"}
                 \cup (IF r.battery = "text" THEN {"max_battery_voltage"} ELSE {})]
            @@ Filled("flight_duration", r.flight_duration, 95)
    IN  /\ \E r \in SummaryRecipes : parsed_data = SummaryModel(r)
        /\ summary = None
        /\ pc = "returned"
        /\ mlog = <<>>
        /\ message_counts = <<>>
        /\ altitude_data = <<>>
        /\ battery_data = <<>>
        /\ gps_data = <<>>
        /\ rc_data = <<>>
        /\ attitude_data = <<>>
        /\ modes = <<>>
        /\ heartbeat_data = <<>>
        /\ system_status = <<>>
        /\ start_timestamp = None
        /\ end_timestamp = None
        /\ agg = [runs |-> 0]
        /\ patterns = None

NextSum == GenerateSummary

SpecSum == InitSum /\ [][NextSum]_vars

(***************************************************************************)
(* Properties of parse_file (specification Spec).                          *)
(***************************************************************************)
TextTypes == {"MSG", "STATUSTEXT", "ERR"}

\* the error record a delivered message yields, None when it yields none
ErrorOf(m) == _extract_message_data(m, Timestamp(m), m.mtype)

\* the delivered text messages whose extracted severity is Warning or worse
Admitted ==
    SelectSeq(mlog, LAMBDA m : /\ m.mtype \in TextTypes
                               /\ ErrorOf(m) # None
                               /\ ErrorOf(m)[1].severity <= WARNING)

\* the positive timestamps of the messages pulled so far
PositiveTimestamps == {Timestamp(mlog[i]) : i \in DOMAIN mlog} \ {0}

\* the sequences of the model that are always present once it is returned
DomainKeys ==
    {"altitude_data", "battery_data", "gps_data", "rc_data", "attitude_data",
     "modes", "heartbeat_data", "system_status", "errors"}

SensorKeys ==
    {"ekf_data", "imu_data", "baro_data", "mag_data", "performance_data",
     "vibration_data"}

\* C1: during one parse vehicle_type and autopilot_type each leave "Unknown"
\* at most once and never change afterwards, whichever message (HEARTBEAT or
\* MODE) resolved them and whichever message comes later.
C1_IdentityResolvedOnce ==
    [][/\ parsed_data.vehicle_type # "Unknown"
            => parsed_data'.vehicle_type = parsed_data.vehicle_type
       /\ parsed_data.autopilot_type # "Unknown"
            => parsed_data'.autopilot_type = parsed_data.autopilot_type]_vars

\* a HEARTBEAT resolved the vehicle type and a later MODE message names a
\* mode of another vehicle's mode set
C1_Witness ==
    /\ Len(mlog) = 2
    /\ mlog[1].mtype = "HEARTBEAT"
    /\ mlog[2].mtype = "MODE"
    /\ hasattr(mlog[2], "Mode")
    /\ parsed_data.vehicle_type # "Unknown"
    /\ _determine_vehicle_type_from_mode(mlog[2].Mode)
           \notin {"Unknown", parsed_data.vehicle_type}
    /\ Len(modes) = 1

\* C2: every record in errors has severity <= 4; the records of errors are
\* exactly, one each and in order, those of the MSG / STATUSTEXT / ERR
\* messages whose extracted severity is <= 4; a MSG text without any keyword
\* is never stored and a MSG text containing "critical" is.
C2_SeverityAdmission ==
    LET errors == parsed_data.errors
        texts == {errors[i].text : i \in DOMAIN errors}
    IN  /\ \A i \in DOMAIN errors : errors[i].severity <= 4
        /\ Len(errors) = Len(Admitted)
        /\ \A i \in DOMAIN errors : errors[i] = ErrorOf(Admitted[i])[1]
        /\ \A i \in DOMAIN mlog :
               mlog[i].mtype = "MSG" /\ hasattr(mlog[i], "Message") =>
                   /\ Contains(lower(mlog[i].Message), "critical")
                          => mlog[i].Message \in texts
                   /\ (\A b \in DOMAIN SEVERITY_KEYWORDS :
                          ~AnyKeyword(lower(mlog[i].Message),
                                      SEVERITY_KEYWORDS[b].keywords))
                          => mlog[i].Message \notin texts

\* a "critical" MSG was retained and a text of severity 5 or more discarded
C2_Witness ==
    /\ Len(mlog) = 2
    /\ mlog[1].mtype = "MSG" /\ hasattr(mlog[1], "Message")
    /\ Contains(lower(mlog[1].Message), "critical")
    /\ mlog[2].mtype \in TextTypes
    /\ ErrorOf(mlog[2]) # None
    /\ ErrorOf(mlog[2])[1].severity >= 5
    /\ Len(parsed_data.errors) = 1

\* C3: the returned model has start_time the minimum and end_time the maximum
\* of the positive timestamps pulled, in whatever order they arrived, and
\* flight_duration = end_time - start_time, never negative.
C3_MinMaxTimestamps ==
    pc = "returned" /\ PositiveTimestamps # {} =>
        /\ parsed_data.start_time = Some(SetMin(PositiveTimestamps))
        /\ parsed_data.end_time = Some(SetMax(PositiveTimestamps))
        /\ "flight_duration" \in DOMAIN parsed_data
        /\ parsed_data.flight_duration
               = SetMax(PositiveTimestamps) - SetMin(PositiveTimestamps)
        /\ parsed_data.flight_duration >= 0

\* what the model of an empty stream holds besides flight_duration
EmptyStreamModel ==
    /\ parsed_data.vehicle_type = "Unknown"
    /\ parsed_data.flight_stats = <<>>
    /\ \A k \in DomainKeys : parsed_data[k] = <<>>
    /\ \A k \in SensorKeys : k \notin DOMAIN parsed_data
    /\ summary # None => summary = Some("Vehicle: Unknown")

\* C4 as stated: parsing an empty stream returns a model whose
\* flight_duration is 0, with vehicle_type "Unknown", empty flight_stats and
\* empty sequences, and generate_summary returns a string for it.
C4_EmptyStreamDurationZero ==
    pc = "returned" /\ mlog = <<>> =>
        /\ "flight_duration" \in DOMAIN parsed_data
        /\ parsed_data.flight_duration = 0
        /\ EmptyStreamModel

\* C4 amended: parsing an empty stream returns a model that has no
\* flight_duration key, so that get("flight_duration", 0) reads 0, with
\* vehicle_type "Unknown", empty flight_stats and empty sequences, and
\* generate_summary returns the string "Vehicle: Unknown" for it.
C4_EmptyStreamNoDuration ==
    pc = "returned" /\ mlog = <<>> =>
        /\ "flight_duration" \notin DOMAIN parsed_data
        /\ Get(parsed_data, "flight_duration", 0) = 0
        /\ parsed_data.start_time = None
        /\ EmptyStreamModel

\* the empty stream was parsed and its summary rendered
C4_Witness ==
    /\ pc = "returned"
    /\ mlog = <<>>
    /\ summary # None

(***************************************************************************)
(* Properties of _analyze_flight_data (specifications SpecAgg and Spec).   *)
(***************************************************************************)
\* C5: after aggregation gps_loss_events equals the number of records of
\* gps_data whose fix_type is below 3; with no such record gps_loss_events is
\* 0 and flight_stats has no first_gps_loss key; otherwise first_gps_loss is
\* the least timestamp among those records.
C5_GpsLossCount ==
    LET \* the records of a buffer that carry a fix_type below 3
        FixLosses(data) ==
            SelectSeq(data, LAMBDA d : "fix_type" \in DOMAIN d /\ d.fix_type < 3)
    IN  agg.runs >= 1 /\ gps_data # <<>> =>
            LET losses == FixLosses(gps_data)
            IN  /\ agg.stats.gps_loss_events = Len(losses)
                /\ losses = <<>> =>
                       /\ agg.stats.gps_loss_events = 0
                       /\ "first_gps_loss" \notin DOMAIN agg.stats
                /\ losses # <<>> =>
                       /\ "first_gps_loss" \in DOMAIN agg.stats
                       /\ agg.stats.first_gps_loss =
                              SetMin({losses[i].timestamp : i \in DOMAIN losses})

\* C6: a record placed in gps_data from a message that carries no fix status
\* (GPA, GLOBAL_POSITION_INT, GPS without Status) is treated as fix_type 3:
\* it is not counted in gps_loss_events and never sets first_gps_loss, so
\* the count and the first loss come from the other messages alone.
C6_NoFixStatusIsFix3 ==
    LET \* the delivered messages whose record parse_file appends to gps_data
        GpsSources ==
            SelectSeq(mlog, LAMBDA m :
                /\ m.mtype \in {"GPS", "GPS2", "GPA", "GPS_RAW_INT",
                                "GLOBAL_POSITION_INT"}
                /\ _extract_gps_data(m, Timestamp(m), m.mtype) # None)
        \* the message carries a fix status
        CarriesFixStatus(m) ==
            \/ m.mtype \in {"GPS", "GPS2"} /\ hasattr(m, "Status")
            \/ m.mtype = "GPS_RAW_INT" /\ hasattr(m, "fix_type")
    IN  pc = "returned" =>
            LET stats == parsed_data.flight_stats
                carried == SelectSeq(GpsSources, CarriesFixStatus)
            IN  /\ Len(parsed_data.gps_data) = Len(GpsSources)
                /\ Get(stats, "gps_loss_events", 0) <= Len(carried)
                /\ "first_gps_loss" \in DOMAIN stats =>
                       \E i \in DOMAIN carried :
                           Timestamp(carried[i]) = stats.first_gps_loss

\* C7: after aggregation over a non-empty rc_data, rc_loss_events equals the
\* number of RC records with rssi below 50 and first_rc_loss is the least
\* timestamp among them, absent when there are none; RCIN and RCOU records
\* are never counted; rssi 255, 255, 40, 255 at timestamps 0..3 give
\* rc_loss_events 1 and first_rc_loss 2.
C7_RcLossCount ==
    LET \* the records of a buffer that carry an rssi below 50
        RssiLosses(data) ==
            SelectSeq(data, LAMBDA d : "rssi" \in DOMAIN d /\ d.rssi < 50)
        \* RC records with rssi 255, 255, 40, 255 at timestamps 0, 1, 2, 3
        RcScenario ==
            [i \in 1..4 |->
                [timestamp |-> i - 1, message_type |-> "RC_CHANNELS", chan1 |-> 15,
                 chan2 |-> 15, chan3 |-> 10, chan4 |-> 15,
                 rssi |-> IF i = 3 THEN 40 ELSE 255]]
    IN  /\ agg.runs >= 1 /\ rc_data # <<>> =>
               LET losses == RssiLosses(rc_data)
                   plain == SelectSeq(rc_data, LAMBDA d :
                                d.message_type \notin {"RCIN", "RCOU"})
               IN  /\ agg.stats.rc_loss_events = Len(losses)
                   /\ agg.stats.rc_loss_events <= Len(plain)
                   /\ losses = <<>> => "first_rc_loss" \notin DOMAIN agg.stats
                   /\ losses # <<>> =>
                          /\ "first_rc_loss" \in DOMAIN agg.stats
                          /\ agg.stats.first_rc_loss =
                                 SetMin({losses[i].timestamp : i \in DOMAIN losses})
        /\ RcStats(RcScenario) = [rc_loss_events |-> 1, first_rc_loss |-> 2]

\* aggregation ran over a weak-signal record, an RCIN and an RCOU record
C7_Witness ==
    /\ agg.runs >= 1
    /\ Len(rc_data) = 3
    /\ \E i, j, k \in DOMAIN rc_data :
           /\ rc_data[i].message_type = "RCIN"
           /\ rc_data[j].message_type = "RCOU" /\ "rssi" \notin DOMAIN rc_data[j]
           /\ "rssi" \in DOMAIN rc_data[k] /\ rc_data[k].rssi < 50
    /\ agg.stats.rc_loss_events = 1

\* C8: for every altitude series of length >= 1 whose values are all
\* non-null, max_altitude >= avg_altitude >= min_altitude.
C8_AltitudeOrdering ==
    (/\ agg.runs >= 1
     /\ altitude_data # <<>>
     /\ \A i \in DOMAIN altitude_data :
            "relative_alt" \in DOMAIN altitude_data[i]) =>
        /\ agg.stats.max_altitude >= agg.stats.avg_altitude
        /\ agg.stats.avg_altitude >= agg.stats.min_altitude

C10_PatternCaps ==
    LET \* the lesser of two numbers
        Least(a, b) == IF a < b THEN a ELSE b
        \* list d is the first SeriesCap first-differences of the values v, in order
        IsFirstDiffs(d, v) ==
            /\ Len(d) = Least(Len(v) - 1, SeriesCap)
            /\ \A i \in DOMAIN d : d[i] = FlSub(v[i + 1], v[i])
    IN  patterns # None =>
            LET p == patterns[1]
                altitudes == Values(parsed_data.altitude_data, "altitude")
                voltages == Values(parsed_data.battery_data, "voltage")
                gps == parsed_data.gps_data
                errors == parsed_data.errors
            IN  /\ Len(altitudes) > 1 =>
                       /\ "altitude_changes" \in DOMAIN p
                       /\ IsFirstDiffs(p.altitude_changes.all_diffs, altitudes)
                /\ Len(voltages) > 1 =>
                       /\ "battery_voltage_changes" \in DOMAIN p
                       /\ IsFirstDiffs(p.battery_voltage_changes.all_diffs,
                                       voltages)
                /\ gps # <<>> =>
                       /\ "gps_fix_types" \in DOMAIN p
                       /\ Len(p.gps_fix_types) = Least(Len(gps), SeriesCap)
                       /\ \A i \in DOMAIN p.gps_fix_types :
                              p.gps_fix_types[i] =
                                  IF "fix_type" \in DOMAIN gps[i]
                                  THEN gps[i].fix_type ELSE 3
                /\ parsed_data.attitude_data # <<>> =>
                       /\ "attitude_rolls" \in DOMAIN p
                       /\ "attitude_pitches" \in DOMAIN p
                       /\ Len(p.attitude_rolls) <= SeriesCap
                       /\ Len(p.attitude_pitches) <= SeriesCap
                /\ errors # <<>> =>
                       /\ "error_messages" \in DOMAIN p
                       /\ Len(p.error_messages) = Least(Len(errors), ErrorCap)
                       /\ \A i \in DOMAIN p.error_messages :
                              p.error_messages[i] = errors[i].text

\* the patterns of a flight model whose series run past both caps
C10_Witness ==
    /\ patterns # None
    /\ Len(Values(parsed_data.altitude_data, "altitude")) > SeriesCap + 1
    /\ Len(Values(parsed_data.battery_data, "voltage"))
           < Len(parsed_data.battery_data)
    /\ Len(parsed_data.gps_data) > SeriesCap
    /\ Len(parsed_data.attitude_data) > SeriesCap
    /\ Len(parsed_data.errors) > ErrorCap
    /\ Len(patterns[1].altitude_changes.all_diffs) = SeriesCap
    /\ Len(patterns[1].error_messages) = ErrorCap

(***************************************************************************)
(* Properties of generate_summary (specifications Spec and SpecSum).       *)
(***************************************************************************)
\* s.startswith(prefix)
StartsWith(s, prefix) ==
    Len(s) >= Len(prefix) /\ SubSeq(s, 1, Len(prefix)) = prefix

\* C11: the summary is its parts joined by " | "; the parts vehicle,
\* autopilot, date, duration, max altitude, battery range and GPS loss count
\* come in that order, each exactly when its source value is present (max
\* altitude whenever flight_stats has max_altitude, battery range whenever
\* it has both voltage bounds).
C11_SummaryPartsPresent ==
    LET \* the labels of the seven parts whose order and presence C11 fixes
        OrderedLabels ==
            {"Vehicle: ", "Autopilot: ", "Date: ", "Duration: ", "Max Alt: ",
             "Battery: ", "GPS Issues: "}
        \* the parts a model must show, each exactly when its source value is present
        PresentParts(flight_data) ==
            LET stats == Get(flight_data, "flight_stats", <<>>)
                duration == Get(flight_data, "flight_duration", 0)
            IN  <<"Vehicle: " \o Get(flight_data, "vehicle_type", "Unknown")>>
                \o (IF Get(flight_data, "autopilot_type", "Unknown") # "Unknown"
                    THEN <<"Autopilot: " \o flight_data.autopilot_type>> ELSE <<>>)
                \o (IF Get(flight_data, "start_time", None) # None
                    THEN <<"Date: " \o strftime(flight_data.start_time)>> ELSE <<>>)
                \o (IF duration > 0
                    THEN <<"Duration: " \o ToString(duration \div 60) \o "m "
                               \o ToString(duration % 60) \o "s">>
                    ELSE <<>>)
                \o (IF "max_altitude" \in DOMAIN stats
                    THEN <<"Max Alt: " \o Fmt1(stats.max_altitude) \o "m">> ELSE <<>>)
                \o (IF {"max_battery_voltage", "min_battery_voltage"}
                           \subseteq DOMAIN stats
                    THEN <<"Battery: " \o Fmt1(stats.min_battery_voltage) \o "V-"
                               \o Fmt1(stats.max_battery_voltage) \o "V">>
                    ELSE <<>>)
                \o (IF Get(stats, "gps_loss_events", 0) > 0
                    THEN <<"GPS Issues: " \o ToString(stats.gps_loss_events)
                               \o " events">>
                    ELSE <<>>)
    IN  pc = "returned" /\ summary # None =>
            LET parts == SummaryParts(parsed_data)
            IN  /\ summary[1] = Join(" | ", parts)
                /\ SelectSeq(parts, LAMBDA part :
                       \E label \in OrderedLabels : StartsWith(part, label))
                   = PresentParts(parsed_data)

\* C12: generate_summary never raises: for any flight model, also one with
\* optional stats missing or with a value that makes a comparison or a
\* format fail, it returns the composed summary or, when composing failed,
\* the fixed fallback string.
C12_SummaryNeverRaises ==
    /\ pc # "summary_raised"
    /\ summary # None =>
           IF SummaryRaises(parsed_data)
           THEN summary[1] = "Error generating flight summary"
           ELSE /\ StartsWith(summary[1], "Vehicle: ")
                /\ summary[1] = Join(" | ", SummaryParts(parsed_data))

\* the summary of a model whose max_altitude is text is the fallback string
C12_Witness ==
    /\ summary = Some("Error generating flight summary")
    /\ "max_altitude" \in Mistyped(parsed_data)
    /\ "flight_duration" \notin DOMAIN parsed_data

(***************************************************************************)
(* Properties of the message loop of parse_file (specification Spec).      *)
(***************************************************************************)
\* reading the message's fields raises AttributeError in its branch
FieldAccessRaises(m) ==
    \/ m.mtype = "HEARTBEAT" /\ ~HasAll(m, HeartbeatFields)
    \/ m.mtype = "SYS_STATUS" /\ ~HasAll(m, SysStatusFields)
    \/ m.mtype = "ATTITUDE"
           /\ ~HasAll(m, {"roll", "pitch", "yaw", "rollspeed", "pitchspeed",
                          "yawspeed"})

\* C13: when field access for a message raises during extraction, no
\* exception reaches the caller (the loop goes on), the message adds no
\* record to any domain sequence and leaves vehicle_type and autopilot_type
\* as they were, so the rest of the stream is parsed from the state the
\* stream without that message gives.
C13_FailingMessageSkipped ==
    [][LET \* the domain sequences and identity fields the loop has built
           \* so far
           DomainState ==
               <<altitude_data, battery_data, gps_data, rc_data,
                 attitude_data, modes, heartbeat_data, system_status,
                 parsed_data.errors, parsed_data.vehicle_type,
                 parsed_data.autopilot_type,
                 [k \in SensorKeys \cap DOMAIN parsed_data |->
                     parsed_data[k]]>>
       IN  (/\ pc = "loop"
            /\ Len(mlog') = Len(mlog) + 1
            /\ FieldAccessRaises(mlog'[Len(mlog')]))
               => /\ pc' = "loop"
                  /\ DomainState' = DomainState]_vars

\* a HEARTBEAT without its fields was skipped, the next one was recorded
C13_Witness ==
    /\ pc = "returned"
    /\ Len(mlog) = 2
    /\ mlog[1].mtype = "HEARTBEAT" /\ FieldAccessRaises(mlog[1])
    /\ mlog[2].mtype = "HEARTBEAT" /\ ~FieldAccessRaises(mlog[2])
    /\ Len(parsed_data.heartbeat_data) = 1
    /\ mlog[2].type \in DOMAIN MAV_VEHICLE_TYPES
    /\ parsed_data.vehicle_type = MAV_VEHICLE_TYPES[mlog[2].type]
    /\ parsed_data.message_counts["HEARTBEAT"] = 2

\* C14: if the message source cannot be opened, parse_file raises to its
\* caller: it returns no model (neither a partial one nor flight_stats), it
\* reads no message, and nothing runs after the raise.
C14_OpenFailureRaises ==
    [][/\ (pc = "open" /\ pc' # "loop") =>
              /\ pc' = "raised"
              /\ mlog' = <<>> /\ message_counts' = <<>>
              /\ parsed_data'.flight_stats = <<>>
              /\ "message_counts" \notin DOMAIN parsed_data'
       /\ pc # "raised"]_vars

\* the source could not be opened and parse_file has raised
C14_Witness ==
    /\ pc = "raised"
    /\ mlog = <<>>
    /\ summary = None

\* C15: for every type name t, message_counts[t] is the number of messages
\* of type t pulled from the stream, a type that never occurred has no
\* entry, and the counts sum to the number of messages pulled, messages
\* without a record or with a failed extraction included; the returned
\* model carries these counts.
C15_MessageCounts ==
    LET \* the number of messages of type t pulled so far
        Pulled(t) == Cardinality({i \in DOMAIN mlog : mlog[i].mtype = t})
        RECURSIVE SumOver(_, _)
        \* sum(counts[t] for t in keys)
        SumOver(counts, keys) ==
            IF keys = {} THEN 0
            ELSE LET t == CHOOSE x \in keys : TRUE
                 IN  counts[t] + SumOver(counts, keys \ {t})
    IN  /\ DOMAIN message_counts = {mlog[i].mtype : i \in DOMAIN mlog}
        /\ \A t \in DOMAIN message_counts : message_counts[t] = Pulled(t)
        /\ SumOver(message_counts, DOMAIN message_counts) = Len(mlog)
        /\ pc = "returned" => parsed_data.message_counts = message_counts

\* two messages of one type were pulled, one of them failing extraction
C15_Witness ==
    /\ pc = "returned"
    /\ Len(mlog) = 2
    /\ mlog[1].mtype = mlog[2].mtype
    /\ FieldAccessRaises(mlog[1])
    /\ parsed_data.message_counts = (mlog[1].mtype :> 2)

(***************************************************************************)
(* Properties of interleaved invocations (specification SpecPar).          *)
(***************************************************************************)
\* C16: two parse_file invocations interleaved on the same MAVLinkParser
\* instance each return the model they would return when run alone: an
\* invocation that has pulled nothing holds no record and no count whatever
\* the other has pulled, and two invocations at the same point of the same
\* stream hold the same buffers, identity, counters and model.
C16_InvocationsIndependent ==
    LET \* the records the buffers of a frame hold
        RecordsIn(frame) ==
            Len(frame[5]) + Len(frame[6]) + Len(frame[7]) + Len(frame[8])
                + Len(frame[9]) + Len(frame[10]) + Len(frame[11]) + Len(frame[12])
    IN  /\ \A frame \in {Frame, agg.other} :
               frame[2] = <<>> =>
                   /\ RecordsIn(frame) = 0
                   /\ frame[4] = <<>>
                   /\ frame[3].vehicle_type = "Unknown"
                   /\ frame[3].errors = <<>>
                   /\ frame[1] = "returned" => frame[3].flight_stats = <<>>
        /\ (pc = agg.other[1] /\ mlog = agg.other[2]) => Frame = agg.other

\* both invocations have returned, after streams that differ
C16_Witness ==
    /\ pc = "returned"
    /\ agg.other[1] = "returned"
    /\ Len(mlog) = 2
    /\ Len(agg.other[2]) = 2
    /\ mlog[1].mtype = "GPA"
    /\ agg.other[2][1].mtype = "HEARTBEAT"
    /\ Len(gps_data) = 1
    /\ agg.other[7] = <<>>

(***************************************************************************)
(* Properties of the flight model after parse_file (specification Spec).   *)
(***************************************************************************)
\* C17: flight_stats is assigned once per parse, on the step that ends the
\* stream, and the consumers generate_summary and detect_patterns_and_changes
\* leave the flight model unchanged: whenever either runs, the first time or
\* again, flight_stats and every domain sequence stay as parse_file
\* returned them.
C17_ModelReadOnlyAfterParse ==
    [][/\ parsed_data'.flight_stats # parsed_data.flight_stats
              => pc = "loop" /\ pc' = "returned"
       /\ pc = "returned" =>
              /\ pc' = "returned"
              /\ parsed_data' = parsed_data
              /\ buffers' = buffers
              /\ \A k \in DomainKeys \ {"errors"} : k \in DOMAIN parsed_data']_vars

\* both consumers have run on a model with statistics and patterns
C17_Witness ==
    /\ pc = "returned"
    /\ summary # None
    /\ patterns # None
    /\ Len(mlog) = 2
    /\ "max_altitude" \in DOMAIN parsed_data.flight_stats
    /\ "gps_fix_types" \in DOMAIN patterns[1]

(***************************************************************************)
(* Properties of the routing of records (specification Spec).              *)
(***************************************************************************)
\* every per-domain sequence the loop appends to, by its key in the model
Sequences ==
    [altitude_data |-> altitude_data, battery_data |-> battery_data,
     gps_data |-> gps_data, rc_data |-> rc_data,
     attitude_data |-> attitude_data, modes |-> modes,
     heartbeat_data |-> heartbeat_data, system_status |-> system_status,
     errors |-> parsed_data.errors]
    @@ [k \in SensorKeys |-> Get(parsed_data, k, <<>>)]

\* the sequence of the domain a message type belongs to
OwnDomain(msg_type) ==
    IF msg_type = "HEARTBEAT" THEN {"heartbeat_data"}
    ELSE IF msg_type = "SYS_STATUS" THEN {"system_status"}
    ELSE IF msg_type \in {"GPS", "GPS2", "GPA", "GPS_RAW_INT",
                          "GLOBAL_POSITION_INT"} THEN {"gps_data"}
    ELSE IF msg_type \in {"POS", "LOCAL_POSITION_NED", "CTUN", "NTUN"}
        THEN {"altitude_data"}
    ELSE IF msg_type \in {"BAT", "BATTERY_STATUS", "CURR", "POWR"}
        THEN {"battery_data"}
    ELSE IF msg_type \in {"RCIN", "RC_CHANNELS", "RC_CHANNELS_RAW", "RCOU"}
        THEN {"rc_data"}
    ELSE IF msg_type \in {"ATT", "ATTITUDE", "AHR2", "AHR3"}
        THEN {"attitude_data"}
    ELSE IF msg_type \in {"MSG", "STATUSTEXT", "ERR"} THEN {"errors"}
    ELSE IF msg_type = "MODE" THEN {"modes"}
    ELSE IF msg_type \in {"XKFS", "XKQ", "XKV1", "XKV2", "XKT", "XKFM", "NKF1",
                          "NKF2", "NKF3", "NKF4", "NKF5"} THEN {"ekf_data"}
    ELSE IF msg_type \in {"IMU", "IMU2", "IMU3", "ACC", "ACC2", "ACC3", "GYR",
                          "GYR2", "GYR3"} THEN {"imu_data"}
    ELSE IF msg_type \in {"BARO", "BAR2", "BAR3"} THEN {"baro_data"}
    ELSE IF msg_type \in {"MAG", "MAG2", "MAG3"} THEN {"mag_data"}
    ELSE IF msg_type = "PM" THEN {"performance_data"}
    ELSE IF msg_type \in {"VIBE", "VIBRATION"} THEN {"vibration_data"}
    ELSE {}

\* the message lacks a field its schema variant requires
RequiredAbsent(m) ==
    \/ FieldAccessRaises(m)
    \/ m.mtype \in {"GPS", "GPS2"} /\ ~HasAll(m, {"Alt", "Lat", "Lng"})
    \/ m.mtype = "GPA" /\ ~hasattr(m, "VDop") /\ ~hasattr(m, "HDop")
    \/ m.mtype \in {"POS", "CTUN", "NTUN"} /\ ~hasattr(m, "Alt")
    \/ m.mtype \in {"BAT", "CURR"} /\ ~hasattr(m, "Volt")
    \/ m.mtype = "MODE" /\ ~hasattr(m, "Mode")
    \/ m.mtype = "MSG" /\ ~hasattr(m, "Message")

\* C18 as stated: processing one message appends at most one record in
\* total across the per-domain sequences, to the sequence of the message's
\* own domain; a message whose required fields are absent appends nothing
\* and raises nothing to the caller.
C18_AtMostOneAppend ==
    [][(pc = "loop" /\ Len(mlog') = Len(mlog) + 1) =>
           LET m == mlog'[Len(mlog')]
               grown == {k \in DOMAIN Sequences :
                            Sequences'[k] # Sequences[k]}
           IN  /\ pc' = "loop"
               /\ Cardinality(grown) <= 1
               /\ grown \subseteq OwnDomain(m.mtype)
               /\ \A k \in grown :
                      Len(Sequences'[k]) = Len(Sequences[k]) + 1
               /\ RequiredAbsent(m) => grown = {}]_vars

\* C18 amended: processing one message builds at most one record and
\* appends it once to the sequence of the message's own domain; the record
\* of a GPS, GPS2, GPS_RAW_INT or GLOBAL_POSITION_INT message that has an
\* altitude is appended to altitude_data as well; a message whose required
\* fields are absent appends nothing and raises nothing to the caller.
C18_OneRecordPerMessage ==
    [][(pc = "loop" /\ Len(mlog') = Len(mlog) + 1) =>
           LET m == mlog'[Len(mlog')]
               grown == {k \in DOMAIN Sequences :
                            Sequences'[k] # Sequences[k]}
               also == IF m.mtype \in {"GPS", "GPS2", "GPS_RAW_INT",
                                       "GLOBAL_POSITION_INT"}
                       THEN {"altitude_data"} ELSE {}
           IN  /\ pc' = "loop"
               /\ grown \subseteq OwnDomain(m.mtype) \cup also
               /\ grown # {} => OwnDomain(m.mtype) \subseteq grown
               /\ \A k \in grown :
                      /\ Len(Sequences'[k]) = Len(Sequences[k]) + 1
                      /\ SubSeq(Sequences'[k], 1, Len(Sequences[k]))
                             = Sequences[k]
               /\ \A j, k \in grown :
                      Sequences'[j][Len(Sequences'[j])]
                          = Sequences'[k][Len(Sequences'[k])]
               /\ RequiredAbsent(m) => grown = {}]_vars

\* a GPS_RAW_INT record went to gps_data and to altitude_data, and a GPS
\* message without position fields added nothing
C18_Witness ==
    /\ Len(mlog) = 2
    /\ mlog[1].mtype = "GPS_RAW_INT"
    /\ mlog[2].mtype = "GPS" /\ RequiredAbsent(mlog[2])
    /\ Len(gps_data) = 1
    /\ altitude_data = gps_data

(***************************************************************************)
(* Properties of the timestamps (specification Spec).                      *)
(***************************************************************************)
\* C19: a message's timestamp is TimeUS / 1e6 when it has TimeUS, otherwise
\* its _timestamp when it has one, otherwise 0; a positive timestamp becomes
\* end_timestamp (and start_timestamp while that is unset) and is the
\* timestamp of the record the message yields; a message whose timestamp is
\* not positive never sets or changes start_time or end_time.
C19_TimestampResolution ==
    [][(pc = "loop" /\ Len(mlog') = Len(mlog) + 1) =>
           LET m == mlog'[Len(mlog')]
               resolved ==
                   IF "TimeUS" \in DOMAIN m THEN FlDiv(m.TimeUS, 1000000)
                   ELSE IF "_timestamp" \in DOMAIN m THEN m._timestamp
                   ELSE 0
           IN  /\ resolved > 0 =>
                      /\ end_timestamp' = Some(resolved)
                      /\ start_timestamp' =
                             IF start_timestamp = None THEN Some(resolved)
                             ELSE start_timestamp
               /\ resolved <= 0 =>
                      UNCHANGED <<start_timestamp, end_timestamp>>
               /\ Len(modes') > Len(modes) =>
                      modes'[Len(modes')].timestamp = resolved
               /\ Len(gps_data') > Len(gps_data) =>
                      gps_data'[Len(gps_data')].timestamp = resolved]_vars

\* a message with both TimeUS and _timestamp set the times, and a later
\* message with TimeUS 0 and a positive _timestamp left them alone
C19_Witness ==
    /\ pc = "returned"
    /\ Len(mlog) = 2
    /\ HasAll(mlog[1], {"TimeUS", "_timestamp"})
    /\ FlDiv(mlog[1].TimeUS, 1000000) # mlog[1]._timestamp
    /\ HasAll(mlog[2], {"TimeUS", "_timestamp"})
    /\ mlog[2].TimeUS = 0 /\ mlog[2]._timestamp > 0
    /\ parsed_data.start_time = Some(FlDiv(mlog[1].TimeUS, 1000000))
    /\ parsed_data.end_time = parsed_data.start_time

(***************************************************************************)
(* Properties of _determine_message_severity (specification SpecSev).      *)
(***************************************************************************)
\* bucket b has a keyword that occurs in the lowercased text
Hit(text, b) == AnyKeyword(lower(text), SEVERITY_KEYWORDS[b].keywords)

\* C20: _determine_message_severity returns the severity of the first
\* bucket, in the order critical, error, warning, notice, that has a keyword
\* occurring as a substring of the lowercased text, and Info when no bucket
\* has one; a text matching several buckets gets the most severe of them.
C20_FirstBucketWins ==
    "severity" \in DOMAIN agg =>
        /\ agg.severity =
               IF Hit(agg.text, 1) THEN CRITICAL
               ELSE IF Hit(agg.text, 2) THEN ERROR
               ELSE IF Hit(agg.text, 3) THEN WARNING
               ELSE IF Hit(agg.text, 4) THEN NOTICE
               ELSE INFO
        /\ \A b \in DOMAIN SEVERITY_KEYWORDS :
               Hit(agg.text, b) => agg.severity <= SEVERITY_KEYWORDS[b].severity
        /\ <<SEVERITY_KEYWORDS[1].severity, SEVERITY_KEYWORDS[2].severity,
             SEVERITY_KEYWORDS[3].severity, SEVERITY_KEYWORDS[4].severity>>
               = <<CRITICAL, ERROR, WARNING, NOTICE>>

\* a text with an upper-case error keyword and a notice keyword was
\* classified Error
C20_Witness ==
    /\ "severity" \in DOMAIN agg
    /\ agg.text = "Mode ERROR"
    /\ Hit(agg.text, 2) /\ Hit(agg.text, 4) /\ ~Hit(agg.text, 1)
    /\ agg.severity = ERROR

(***************************************************************************)
(* The mode-name fallback of the vehicle identity (specification Spec).    *)
(***************************************************************************)
\* the mode lists in the order the fallback tests them, with their labels
ModeSets ==
    <<[modes |-> MULTICOPTER_MODES, label |-> "Quadrotor"],
      [modes |-> FIXED_WING_MODES, label |-> "Fixed Wing"],
      [modes |-> ROVER_MODES, label |-> "Ground Rover"],
      [modes |-> HELICOPTER_MODES, label |-> "Helicopter"]>>

\* the lists that hold the mode name
SetsHolding(mode) == {i \in DOMAIN ModeSets : mode \in ModeSets[i].modes}

\* the first list, in test order, that holds the mode name (0: none does)
FirstHolding(mode) ==
    IF SetsHolding(mode) = {} THEN 0
    ELSE CHOOSE i \in SetsHolding(mode) : \A j \in SetsHolding(mode) : i <= j

\* C21: while vehicle_type is "Unknown", a MODE message whose name is in one
\* of the mode sets sets vehicle_type to the label of the first set holding
\* it (order multicopter, fixed-wing, rover, helicopter); a name in no set
\* leaves it "Unknown", and the same rule (and the HEARTBEAT table) applies
\* to every later message, so a later MODE or HEARTBEAT still resolves it.
C21_ModeFallbackFirstSet ==
    [][(pc = "loop" /\ Len(mlog') = Len(mlog) + 1
            /\ parsed_data.vehicle_type = "Unknown")
       => LET m == mlog'[Len(mlog')]
          IN  /\ (m.mtype = "MODE" /\ hasattr(m, "Mode"))
                   => parsed_data'.vehicle_type =
                          IF FirstHolding(m.Mode) = 0 THEN "Unknown"
                          ELSE ModeSets[FirstHolding(m.Mode)].label
              /\ (m.mtype = "HEARTBEAT" /\ HasAll(m, HeartbeatFields)
                      /\ m.type \in DOMAIN MAV_VEHICLE_TYPES)
                   => parsed_data'.vehicle_type = MAV_VEHICLE_TYPES[m.type]]_vars

\* a mode name in no list left the type "Unknown"; the next MODE message,
\* whose name is in the fixed-wing and the rover list, made it "Fixed Wing"
C21_Witness ==
    /\ Len(mlog) = 2
    /\ mlog[1].mtype = "MODE" /\ hasattr(mlog[1], "Mode")
    /\ SetsHolding(mlog[1].Mode) = {}
    /\ mlog[2].mtype = "MODE" /\ hasattr(mlog[2], "Mode")
    /\ SetsHolding(mlog[2].Mode) = {2, 3}
    /\ parsed_data.vehicle_type = "Fixed Wing"
    /\ Len(modes) = 2

(***************************************************************************)
(* Properties of the mode lists (specification SpecMode).                  *)
(***************************************************************************)
\* C22: the four static mode-name sets of the fallback are pairwise
\* disjoint: no mode name handed to the fallback belongs to two of them.
C22_ModeSetsDisjoint ==
    \A i \in DOMAIN agg.resolved :
        Cardinality(SetsHolding(agg.names[i])) <= 1

\* C27: the fallback never answers "Helicopter": every name of the
\* helicopter list is in the multicopter or the fixed-wing list, which are
\* tested first, so the answer is one of "Quadrotor", "Fixed Wing",
\* "Ground Rover" and "Unknown" for every mode name.
C27_HelicopterUnreachable ==
    /\ HELICOPTER_MODES \subseteq (MULTICOPTER_MODES \cup FIXED_WING_MODES)
    /\ \A i \in DOMAIN agg.resolved :
           agg.resolved[i] \in
               {"Quadrotor", "Fixed Wing", "Ground Rover", "Unknown"}

\* a name of the helicopter list that is not in the multicopter list was
\* answered "Fixed Wing", and a name only the helicopter-free lists hold
\* was answered "Ground Rover"
C27_Witness ==
    /\ Len(agg.resolved) = 2
    /\ agg.names[1] \in HELICOPTER_MODES \ MULTICOPTER_MODES
    /\ agg.resolved[1] = "Fixed Wing"
    /\ agg.names[2] \in ROVER_MODES \ HELICOPTER_MODES
    /\ agg.resolved[2] = "Ground Rover"

(***************************************************************************)
(* Altitude statistics and the canonical altitude (specification SpecAgg). *)
(***************************************************************************)
\* C23: an altitude record without relative_alt but with a non-null
\* canonical altitude still takes part in the altitude statistics, so
\* whenever altitude_data holds a record with a non-null altitude,
\* flight_stats contains max_altitude.
C23_AltitudeFallback ==
    (/\ agg.runs >= 1
     /\ \E i \in DOMAIN altitude_data : "altitude" \in DOMAIN altitude_data[i])
        => "max_altitude" \in DOMAIN agg.stats

(***************************************************************************)
(* The altitude changes of detect_patterns_and_changes (specification      *)
(* SpecPat).                                                               *)
(***************************************************************************)
\* C24: all_diffs[i] = a[i+1] - a[i] over the non-null altitude values a in
\* arrival order; max_rise and max_drop are the maximum and the minimum of
\* the full difference sequence, differences beyond the first 100 included,
\* so max_drop <= max_rise; and altitude_changes is absent when fewer than
\* two non-null altitudes exist.
C24_AltitudeChanges ==
    patterns # None =>
        LET p == patterns[1]
            a == Values(parsed_data.altitude_data, "altitude")
            d == [i \in 1..(Len(a) - 1) |-> FlSub(a[i + 1], a[i])]
        IN  IF Len(a) < 2
            THEN "altitude_changes" \notin DOMAIN p
            ELSE /\ "altitude_changes" \in DOMAIN p
                 /\ \A i \in DOMAIN p.altitude_changes.all_diffs :
                        p.altitude_changes.all_diffs[i] = d[i]
                 /\ \E i \in DOMAIN d : p.altitude_changes.max_rise = d[i]
                 /\ \A i \in DOMAIN d : d[i] <= p.altitude_changes.max_rise
                 /\ \E i \in DOMAIN d : p.altitude_changes.max_drop = d[i]
                 /\ \A i \in DOMAIN d : d[i] >= p.altitude_changes.max_drop
                 /\ p.altitude_changes.max_drop <= p.altitude_changes.max_rise

\* the steepest rise and the steepest drop of the series both lie beyond
\* the first 100 differences
C24_Witness ==
    /\ patterns # None
    /\ "altitude_changes" \in DOMAIN patterns[1]
    /\ Len(patterns[1].altitude_changes.all_diffs) = SeriesCap
    /\ \A i \in DOMAIN patterns[1].altitude_changes.all_diffs :
           /\ patterns[1].altitude_changes.all_diffs[i]
                  < patterns[1].altitude_changes.max_rise
           /\ patterns[1].altitude_changes.all_diffs[i]
                  > patterns[1].altitude_changes.max_drop

(***************************************************************************)
(* Termination of the read loop (specification SpecLive).                  *)
(***************************************************************************)
\* C25: for every finite message stream, parse_file eventually leaves its
\* read loop and returns a model, having pulled each message exactly once,
\* also when a read or an extraction raises an error.
C25_LoopTerminates ==
    LET \* the messages of a stream, its unreadable parts left out
        RECURSIVE Readable(_)
        Readable(stream) ==
            IF stream = <<>> THEN <<>>
            ELSE IF Head(stream).mtype = "BAD_DATA" THEN Readable(Tail(stream))
            ELSE <<Head(stream)>> \o Readable(Tail(stream))
    IN  (pc = "loop") ~> (pc = "returned" /\ mlog = Readable(agg.stream))

(***************************************************************************)
(* Order of the per-domain sequences (specification Spec).                 *)
(***************************************************************************)
\* the records of sequence k were produced, in this order, by messages of
\* msgs taken in their order
RECURSIVE InArrivalOrder(_, _, _)
InArrivalOrder(records, msgs, k) ==
    LET \* message m, routed to this sequence, can have produced record rec
        ProducedBy(rec, m) ==
            /\ k \in OwnDomain(m.mtype)
                        \cup (IF m.mtype \in {"GPS", "GPS2", "GPS_RAW_INT",
                                              "GLOBAL_POSITION_INT"}
                              THEN {"altitude_data"} ELSE {})
            /\ rec.timestamp = Timestamp(m)
    IN  IF records = <<>> THEN TRUE
        ELSE IF msgs = <<>> THEN FALSE
        ELSE IF ProducedBy(Head(records), Head(msgs))
             THEN InArrivalOrder(Tail(records), Tail(msgs), k)
             ELSE InArrivalOrder(records, Tail(msgs), k)

\* C26: at every point of a parse each per-domain sequence is a prefix of
\* all its later values (records are appended at the end, never removed,
\* replaced or reordered), the order of its records is the arrival order of
\* the messages that produced them, and every stored record's timestamp is
\* >= 0.
C26_SequencesAppendOnly ==
    /\ [][\A k \in DOMAIN Sequences :
              /\ Len(Sequences[k]) <= Len(Sequences'[k])
              /\ SubSeq(Sequences'[k], 1, Len(Sequences[k])) = Sequences[k]]_vars
    /\ [](\A k \in DOMAIN Sequences :
              /\ InArrivalOrder(Sequences[k], mlog, k)
              /\ \A i \in DOMAIN Sequences[k] : Sequences[k][i].timestamp >= 0)

\* two battery messages with different clocks left their records, the
\* earlier arrival first, in battery_data of the returned model
C26_Witness ==
    /\ pc = "returned"
    /\ Len(mlog) = 2
    /\ Len(parsed_data.battery_data) = 2
    /\ parsed_data.battery_data[1].timestamp = Timestamp(mlog[1])
    /\ parsed_data.battery_data[2].timestamp = Timestamp(mlog[2])
    /\ Timestamp(mlog[1]) > Timestamp(mlog[2])

(***************************************************************************)
(* Properties of the upload endpoint (specification SpecUpload).           *)
(***************************************************************************)
\* C28: under any interleaving of concurrent upload requests at their await
\* points, two requests with the same filename included, each request
\* parses the bytes it uploaded itself, its temp file is removed exactly
\* once, by that request, and no request fails.
C28_UploadsIsolated ==
    \A r \in Requests :
        (pc[r] = "done" /\ Supported(agg.request[r].filename)) =>
            /\ agg.request[r].parsed = agg.request[r].body
            /\ agg.request[r].removed = 1
            /\ agg.request[r].status = 200

\* C30: an upload whose filename ends with neither .bin nor .tlog is
\* answered with HTTP status 400; no temp file is written, no parse is
\* started, and the flight-data and summary stores are left unchanged.
C30_UnsupportedFileRejected ==
    \A r \in Requests :
        (pc[r] = "done" /\ ~Supported(agg.request[r].filename)) =>
            /\ agg.request[r].status = 400
            /\ agg.request[r].written = 0
            /\ agg.request[r].parsed = 0
            /\ \A k \in DOMAIN agg.redis : agg.redis[k].by # r

(***************************************************************************)
(* Properties of the chat endpoint (specification SpecChat).               *)
(***************************************************************************)
\* C29: under any interleaving of concurrent /chat requests for the same
\* filename:timestamp, the chat history stored after all of them have
\* completed contains the user message and the assistant reply of every
\* request.
C29_ChatHistoryComplete ==
    LET \* the entries of a history list
        Entries(history) == {history[i] : i \in DOMAIN history}
    IN  (\A r \in Requests : pc[r] = "done") =>
            \A r \in Requests :
                agg.request[r].replied =>
                    /\ [role |-> "user", content |-> agg.request[r].content]
                           \in Entries(agg.chat_history)
                    /\ [role |-> "assistant",
                        content |-> Reply(agg.request[r].content)]
                           \in Entries(agg.chat_history)

====
